---- MODULE Spec2Model ----
(***************************************************************************)
(* Model of the chat controller of rxjs-ai (src/src/ai/createChatController.ts) *)
(* together with the abort wiring of streamText (src/src/ai/streamText.ts).   *)
(*                                                                         *)
(* One behaviour is the life of one controller instance.  A public         *)
(* operation (send, retryLast, cancel, destroy) is one action and includes *)
(* everything the adapter sequence delivers synchronously inside           *)
(* subscribe(); what the adapter delivers later is the action              *)
(* AdapterNotify.  Strings are sequences of characters.                    *)
(*                                                                         *)
(* Spec is the controller under all its operations; SpecReplay, SpecObserve *)
(* and SpecPair look at runs of send and retryLast, at late observers and  *)
(* at a LanguageModel controller next to a ChatModelAdapter one.           *)
(* SpecStream and SpecSuccessive are one streamText / generateText call    *)
(* (src/src/ai/streamText.ts, src/src/ai/generateText.ts) and its          *)
(* subscribers.  SpecOrdered starts the controller with initial messages,  *)
(* SpecReentered lets an observer call the controller from its callback,   *)
(* SpecLive is a controller whose adapter sequences all end, and SpecAsync *)
(* is one createAsyncController instance                                   *)
(* (src/src/core/createAsyncController.ts).                                *)
(***************************************************************************)
EXTENDS Integers, Sequences, FiniteSets, TLC

\* ------------------------------------------------------------------ bounds
MaxRequests == 2     \* completions started by one controller
MaxNotifications == 2  \* notifications the adapter sequences push, in all
MaxReplays == 3      \* completions started in a run of send and retryLast only
MaxObserved == 1     \* completions started in a run with late observers
MaxConsumers == 3    \* subscribers of one streamText / generateText call
MaxEvents == 2       \* notifications the model's sequence pushes for one call
MaxSuccessive == 2   \* subscribers of one call that come one after another
MaxLongEvents == 3   \* notifications pushed for one call with such subscribers
MaxOrdered == 1      \* completions started by a controller with initial messages
MaxReentered == 2    \* completions started in a run with a calling observer
MaxLive == 1         \* completions started in a run whose sequences all end
MaxExecutes == 2     \* execute() calls on one async controller
MaxPushes == 2       \* notifications the executor sequences push, in all
MaxCancels == 1      \* cancel() calls on one async controller

\* ------------------------------------------------------------- value sets
\* content arguments of send: empty, blank, padded
Texts == {<<>>, <<" ", " ">>, <<" ", "x", " ">>}
\* The capability plugged in: a ChatModelAdapter whose sequence ignores the
\* signal, one whose sequence fails with the abort error when the signal
\* fires, or a LanguageModel (always wrapped by applyAbortSignal).
ModelKinds == {"adapter", "abortingAdapter", "languageModel"}
AdapterErrors == {"E1"}
AbortError == "AbortError"
NoError == "null"
NoText == <<>>

\* ChatChunk = string | {content, done?}
Chunks ==
  {[kind |-> "string", content |-> t, done |-> FALSE] : t \in {<<>>, <<"a">>}}
    \cup {[kind |-> "object", content |-> <<"b">>, done |-> d] : d \in BOOLEAN}

\* TextStreamEvent: text-delta | finish (carried through stream$, dropped by delta$)
StreamEvents ==
  {[type |-> "text-delta", textDelta |-> t] : t \in {<<>>, <<"a">>}}
    \cup {[type |-> "finish", textDelta |-> NoText]}

NoValue == [none |-> TRUE]

\* What a producer can push into its subscriber.
Notifications(kind) ==
  {[n |-> "next", value |-> v, err |-> NoError] :
      v \in IF kind = "languageModel" THEN StreamEvents ELSE Chunks}
    \cup {[n |-> "error", value |-> NoValue, err |-> e] : e \in AdapterErrors}
    \cup {[n |-> "complete", value |-> NoValue, err |-> NoError]}

Scripts(kind, len) == UNION {[1..n -> Notifications(kind)] : n \in 0..len}

\* meta arguments of send: none, an empty object, an object with a key
NoMeta == [defined |-> FALSE, keys |-> {}]
Metas == {NoMeta, [defined |-> TRUE, keys |-> {}], [defined |-> TRUE, keys |-> {"k"}]}

InitialMessagesOptions ==
  {<<>>, <<[id |-> 0, role |-> "system", content |-> <<"x">>, createdAt |-> 0,
            meta |-> [defined |-> TRUE, keys |-> {"k"}]]>>}

VARIABLES
  model,                  \* which capability was plugged in
  messagesSubject,        \* BehaviorSubject values
  statusSubject,
  errorSubject,
  stateSubject,
  completed,              \* the four subjects have been complete()d
  activeAbortController,  \* 0 = null, else the request whose controller it is
  activeSubscription,     \* 0 = null, else the request whose subscription it is
  lastRequestMessages,    \* [isNull, value]
  requests,               \* per started completion: subscription, signal, ...
  nextId,                 \* idGenerator
  pushed,                 \* notifications the adapter sequences have pushed
  emits,                  \* what the projections delivered during the last action
  last,                   \* the last operation and what it did
  twin,                   \* a second controller, driven alongside (SpecPair)
  call,                   \* one streamText / generateText call (SpecStream)
  connections,            \* its subscriptions to the sequence the model returned
  consumers,              \* the subscribers of the sequences it returned
  asyncController         \* one createAsyncController instance (SpecAsync)

vars == <<model, messagesSubject, statusSubject, errorSubject, stateSubject,
          completed, activeAbortController, activeSubscription,
          lastRequestMessages, requests, nextId, pushed, emits, last, twin,
          call, connections, consumers, asyncController>>

\* ------------------------------------------------------- pure functions
RECURSIVE TrimStart(_)
TrimStart(s) == IF s # <<>> /\ Head(s) = " " THEN TrimStart(Tail(s)) ELSE s

RECURSIVE TrimEnd(_)
TrimEnd(s) ==
  IF s # <<>> /\ s[Len(s)] = " " THEN TrimEnd(SubSeq(s, 1, Len(s) - 1)) ELSE s

\* String.prototype.trim
Trim(s) == TrimEnd(TrimStart(s))

chunkToText(chunk) == chunk.content

chunkIsDone(chunk) == IF chunk.kind = "string" THEN FALSE ELSE chunk.done

isLanguageModel(m) == m = "languageModel"

\* ------------------------------------------- the controller as a record
\* The closure's state, threaded through the handlers below, and what the
\* current operation has done so far.
Ctl ==
  [model |-> model,
   messagesSubject |-> messagesSubject, statusSubject |-> statusSubject,
   errorSubject |-> errorSubject, stateSubject |-> stateSubject,
   completed |-> completed,
   activeAbortController |-> activeAbortController,
   activeSubscription |-> activeSubscription,
   lastRequestMessages |-> lastRequestMessages,
   requests |-> requests, nextId |-> nextId,
   emits |-> <<>>, observed |-> <<>>, invoked |-> 0,
   liveAtSubscribe |-> 0, unabortedAtCreate |-> 0,
   passed |-> <<>>, statusAtInvoke |-> "-", errorAtInvoke |-> "-",
   completions |-> <<>>, replayed |-> <<>>]

\* F applied to the value of v, with v evaluated once (a LET name is
\* evaluated anew wherever it is used).
With(v, F(_)) == CHOOSE result \in {F(x) : x \in {v}} : TRUE

\* getState()
getState(c) == c.stateSubject

\* subject.next(v): the value is stored; observers are notified unless the
\* subject has completed.
\* Logged per delivery: the projection, the kind of notification (a subject
\* is only ever handed values here), the delivered value where it is a
\* status, an error or a combined state, and whether getState() called inside the observer's
\* callback returns that same value.
Emit(c, proj) ==
  IF c.completed THEN c
  ELSE [c EXCEPT !.emits = Append(@,
          [proj |-> proj, n |-> "next",
           value |-> CASE proj = "status" -> c.statusSubject
                       [] proj = "error" -> c.errorSubject
                       [] proj = "state" -> c.stateSubject
                       [] OTHER -> "-",
           fresh |-> CASE proj = "status" -> getState(c).status = c.statusSubject
                       [] proj = "error" -> getState(c).error = c.errorSubject
                       [] proj = "messages" -> getState(c).messages = c.messagesSubject
                       [] OTHER -> TRUE])]

emitState(c) ==
  Emit([c EXCEPT !.stateSubject =
          [messages |-> c.messagesSubject, status |-> c.statusSubject,
           error |-> c.errorSubject]], "state")

\* mutant: a new message list is not followed by a new combined state
setMessages_noEmitState(c, messages) ==
  Emit([c EXCEPT !.messagesSubject = messages], "messages")

setMessages(c, messages) ==
  emitState(Emit([c EXCEPT !.messagesSubject = messages], "messages"))

\* mutant: the combined state is not recomputed
setStatus_noEmitState(c, status) ==
  Emit([c EXCEPT !.statusSubject = status], "status")

setStatus(c, status) ==
  emitState(Emit([c EXCEPT !.statusSubject = status], "status"))

setError(c, error) ==
  emitState(Emit([c EXCEPT !.errorSubject = error], "error"))

\* mutant: the id generator is asked once and its answer is reused
createMessage_sameId(c, role, content, meta) ==
  [id |-> 1, role |-> role, content |-> content, createdAt |-> c.nextId,
   meta |-> IF meta.defined /\ Cardinality(meta.keys) > 0 THEN meta ELSE NoMeta]

\* now() is read once per message: the clock is the number of the message.
\* A message built without meta, or with an empty one, has no meta field.
createMessage(c, role, content, meta) ==
  [id |-> c.nextId, role |-> role, content |-> content, createdAt |-> c.nextId,
   meta |-> IF meta.defined /\ Cardinality(meta.keys) > 0 THEN meta ELSE NoMeta]

LiveRequests(rs) == {r \in 1..Len(rs) : rs[r].sub = "live"}
UnabortedRequests(rs) == {r \in 1..Len(rs) : ~rs[r].aborted}

RECURSIVE releaseActiveRequest(_)

finishRequest(c) ==
  With(releaseActiveRequest(c), LAMBDA c1 : setStatus(c1, "idle"))

\* mutant: the fragment is put in front of the content
appendDelta_prepend(c, assistantMessageId, textDelta) ==
  IF Len(textDelta) > 0
  THEN LET c1 == setStatus(c, "streaming")
       IN setMessages(c1,
            [i \in 1..Len(c1.messagesSubject) |->
               IF c1.messagesSubject[i].id = assistantMessageId
               THEN [c1.messagesSubject[i] EXCEPT !.content = textDelta \o @]
               ELSE c1.messagesSubject[i]])
  ELSE c

\* mutant: an empty fragment is treated like any other
appendDelta_noGuard(c, assistantMessageId, textDelta) ==
  LET c1 == setStatus(c, "streaming")
  IN setMessages(c1,
       [i \in 1..Len(c1.messagesSubject) |->
          IF c1.messagesSubject[i].id = assistantMessageId
          THEN [c1.messagesSubject[i] EXCEPT !.content = @ \o textDelta]
          ELSE c1.messagesSubject[i]])

\* mutant: the list is filtered down to the message being extended
appendDelta_filter(c, assistantMessageId, textDelta) ==
  IF Len(textDelta) > 0
  THEN LET c1 == setStatus(c, "streaming")
       IN setMessages(c1,
            [i \in 1..Len(SelectSeq(c1.messagesSubject,
                                    LAMBDA m : m.id = assistantMessageId)) |->
               [SelectSeq(c1.messagesSubject,
                          LAMBDA m : m.id = assistantMessageId)[i]
                  EXCEPT !.content = @ \o textDelta]])
  ELSE c

\* mutant: every assistant message is extended
appendDelta_allAssistants(c, assistantMessageId, textDelta) ==
  IF Len(textDelta) > 0
  THEN LET c1 == setStatus(c, "streaming")
       IN setMessages(c1,
            [i \in 1..Len(c1.messagesSubject) |->
               IF c1.messagesSubject[i].role = "assistant"
               THEN [c1.messagesSubject[i] EXCEPT !.content = @ \o textDelta]
               ELSE c1.messagesSubject[i]])
  ELSE c

appendDelta(c, assistantMessageId, textDelta) ==
  IF Len(textDelta) > 0
  THEN With(setStatus(c, "streaming"), LAMBDA c1 :
         setMessages(c1,
            [i \in 1..Len(c1.messagesSubject) |->
               IF c1.messagesSubject[i].id = assistantMessageId
               THEN [c1.messagesSubject[i] EXCEPT !.content = @ \o textDelta]
               ELSE c1.messagesSubject[i]]))
  ELSE c

\* next callback of the subscriber of request r
nextHandler(c, r, value) ==
  IF isLanguageModel(c.model)
  THEN \* delta$ = stream$ filtered to text-delta, mapped to textDelta
       IF value.type = "text-delta"
       THEN appendDelta(c, c.requests[r].assistantMessageId, value.textDelta)
       ELSE c
  ELSE LET c1 == appendDelta(c, c.requests[r].assistantMessageId, chunkToText(value))
       IN IF chunkIsDone(value) THEN finishRequest(c1) ELSE c1

\* mutant: the failure is recorded but the request is not released
errorHandler_noRelease(c, error) == setStatus(setError(c, error), "error")

\* mutant: the failure is stored but the status is left as it was
errorHandler_noStatus(c, error) == releaseActiveRequest(setError(c, error))

\* error callback of the subscriber of request r
errorHandler(c, error) ==
  With(setError(c, error), LAMBDA c1 :
    With(setStatus(c1, "error"), LAMBDA c2 : releaseActiveRequest(c2)))

\* mutant: the completion of the sequence is ignored
completeHandler_ignored(c) == c

\* complete callback of the subscriber of request r
completeHandler(c) == finishRequest(c)

\* The text a pushed value carries, and whether it carries the done flag.
TextOfFor(m, n) ==
  IF n.n # "next" THEN NoText
  ELSE IF isLanguageModel(m) THEN n.value.textDelta ELSE n.value.content

TextOf(n) == TextOfFor(model, n)

DoneOfFor(m, n) == n.n = "next" /\ ~isLanguageModel(m) /\ chunkIsDone(n.value)

DoneOf(n) == DoneOfFor(model, n)

\* The subscriber of request r is handed n: noted in the operation's log and
\* in the request's record of what its sequence delivered (text, doneSeen).
Observe(c, r, n) ==
  [c EXCEPT !.observed = Append(@, [r |-> r, n |-> n]),
            !.requests[r].text = @ \o TextOfFor(c.model, n),
            !.requests[r].doneSeen = @ \/ DoneOfFor(c.model, n)]

\* One notification pushed by the producer of request r into its subscriber.
\* A subscriber that was unsubscribed or has terminated drops it; error and
\* complete stop the subscriber before its callback runs.
Deliver(c, r, n) ==
  IF c.requests[r].sub # "live" THEN c
  ELSE LET c0 == Observe(c, r, n)
       IN CASE n.n = "next" -> nextHandler(c0, r, n.value)
            [] n.n = "error" ->
                 errorHandler([c0 EXCEPT !.requests[r].sub = "terminated"], n.err)
            [] n.n = "complete" ->
                 completeHandler([c0 EXCEPT !.requests[r].sub = "terminated"])

\* AbortController.abort(): the first call flags the signal and fires the
\* abort listeners; a cancellation-aware sequence (applyAbortSignal) then
\* fails its subscriber with the abort error.
abort(c, r) ==
  IF c.requests[r].aborted THEN c
  ELSE LET c1 == [c EXCEPT !.requests[r].aborted = TRUE]
       IN IF c1.requests[r].aware
          THEN Deliver(c1, r, [n |-> "error", value |-> NoValue, err |-> AbortError])
          ELSE c1

\* Subscription.unsubscribe()
unsubscribe(c, r) ==
  IF c.requests[r].sub = "live" THEN [c EXCEPT !.requests[r].sub = "unsubscribed"]
  ELSE c

\* mutant: the abort controller is dropped without being aborted
releaseActiveRequest_noAbort(c) ==
  LET c1 == [c EXCEPT !.activeAbortController = 0]
      c2 == IF c1.activeSubscription # 0
            THEN [unsubscribe(c1, c1.activeSubscription) EXCEPT !.activeSubscription = 0]
            ELSE c1
  IN c2

\* mutant: the signal is aborted but the subscription is only forgotten
releaseActiveRequest_noUnsubscribe(c) ==
  LET c1 == IF c.activeAbortController # 0
            THEN [abort(c, c.activeAbortController) EXCEPT !.activeAbortController = 0]
            ELSE c
  IN [c1 EXCEPT !.activeSubscription = 0]

releaseActiveRequest(c) ==
  With(c, LAMBDA c0 :
    LET c1 == IF c0.activeAbortController # 0
              THEN [abort(c0, c0.activeAbortController) EXCEPT !.activeAbortController = 0]
              ELSE c0
        c2 == With(c1, LAMBDA d :
                IF d.activeSubscription # 0
                THEN [unsubscribe(d, d.activeSubscription) EXCEPT !.activeSubscription = 0]
                ELSE d)
    IN c2)

RECURSIVE DeliverAll(_, _, _)
DeliverAll(c, r, script) ==
  IF script = <<>> THEN c
  ELSE DeliverAll(Deliver(c, r, Head(script)), r, Tail(script))

\* mutant: the error of the previous cycle is not cleared
runCompletion_keepError(c, baseMessages, assistantMessageId, script) ==
  LET c1 == [c EXCEPT !.lastRequestMessages = [isNull |-> FALSE, value |-> baseMessages]]
      c2 == releaseActiveRequest(c1)
      c3 == setStatus(c2, "loading")
      c4 == c3
      r == Len(c.requests) + 1
      c5 == With(c4, LAMBDA d : [d EXCEPT
               !.unabortedAtCreate = Cardinality(UnabortedRequests(d.requests)),
               !.liveAtSubscribe = Cardinality(LiveRequests(d.requests)),
               !.invoked = @ + 1,
               !.passed = baseMessages,
               !.statusAtInvoke = getState(d).status,
               !.errorAtInvoke = getState(d).error,
               !.requests = Append(@,
                  [sub |-> "live", aborted |-> FALSE,
                   assistantMessageId |-> assistantMessageId,
                   aware |-> d.model # "adapter",
                   text |-> NoText, doneSeen |-> FALSE]),
               !.activeAbortController = Len(d.requests) + 1])
      c6 == DeliverAll(c5, r, script)
  IN [c6 EXCEPT !.activeSubscription = r]

\* script: what the sequence delivers synchronously inside subscribe()
runCompletion(c, baseMessages, assistantMessageId, script) ==
  LET c1 == [c EXCEPT !.lastRequestMessages = [isNull |-> FALSE, value |-> baseMessages]]
      c2 == releaseActiveRequest(c1)
      c3 == setStatus(c2, "loading")
      c4 == setError(c3, NoError)
      r == Len(c.requests) + 1
      c5 == With(c4, LAMBDA d : [d EXCEPT
               !.unabortedAtCreate = Cardinality(UnabortedRequests(d.requests)),
               !.liveAtSubscribe = Cardinality(LiveRequests(d.requests)),
               !.invoked = @ + 1,
               !.passed = baseMessages,
               !.statusAtInvoke = getState(d).status,
               !.errorAtInvoke = getState(d).error,
               !.requests = Append(@,
                  [sub |-> "live", aborted |-> FALSE,
                   assistantMessageId |-> assistantMessageId,
                   aware |-> d.model # "adapter",
                   text |-> NoText, doneSeen |-> FALSE]),
               !.activeAbortController = Len(d.requests) + 1])
      c6 == DeliverAll(c5, r, script)
  IN [c6 EXCEPT !.activeSubscription = r]

\* mutant: the content is used as given
send_noTrim(c, content, meta, script) ==
  LET text == content
  IN IF Len(text) = 0 THEN c
     ELSE LET c1 == releaseActiveRequest(c)
              currentMessages == c1.messagesSubject
              userMessage == createMessage(c1, "user", text, meta)
              c2 == [c1 EXCEPT !.nextId = @ + 1]
              assistantMessage == createMessage(c2, "assistant", NoText, NoMeta)
              c3 == [c2 EXCEPT !.nextId = @ + 1]
              c4 == setMessages(c3, currentMessages \o <<userMessage, assistantMessage>>)
          IN runCompletion(c4, Append(currentMessages, userMessage),
                           assistantMessage.id, script)

\* mutant: the active request is released before the content is looked at
send_releaseFirst(c, content, meta, script) ==
  LET text == Trim(content)
      c1 == releaseActiveRequest(c)
  IN IF Len(text) = 0 THEN c1
     ELSE LET currentMessages == c1.messagesSubject
              userMessage == createMessage(c1, "user", text, meta)
              c2 == [c1 EXCEPT !.nextId = @ + 1]
              assistantMessage == createMessage(c2, "assistant", NoText, NoMeta)
              c3 == [c2 EXCEPT !.nextId = @ + 1]
              c4 == setMessages(c3, currentMessages \o <<userMessage, assistantMessage>>)
          IN runCompletion(c4, Append(currentMessages, userMessage),
                           assistantMessage.id, script)

send(c, content, meta, script) ==
  LET text == Trim(content)
  IN IF Len(text) = 0 THEN c
     ELSE LET c1 == releaseActiveRequest(c)
              currentMessages == c1.messagesSubject
              userMessage == createMessage(c1, "user", text, meta)
              c2 == [c1 EXCEPT !.nextId = @ + 1]
              assistantMessage == createMessage(c2, "assistant", NoText, NoMeta)
              c3 == [c2 EXCEPT !.nextId = @ + 1]
              c4 == setMessages(c3, currentMessages \o <<userMessage, assistantMessage>>)
          IN runCompletion(c4, Append(currentMessages, userMessage),
                           assistantMessage.id, script)

\* mutant: the retained baseline is used without asking whether there is one
retryLast_noGuard(c, script) ==
  LET c1 == releaseActiveRequest(c)
      assistantMessage == createMessage(c1, "assistant", NoText, NoMeta)
      c2 == [c1 EXCEPT !.nextId = @ + 1]
      c3 == setMessages(c2, Append(c2.lastRequestMessages.value, assistantMessage))
  IN runCompletion(c3, c3.lastRequestMessages.value, assistantMessage.id, script)

\* mutant: the new assistant message is added to the list currently shown
retryLast_appendToCurrent(c, script) ==
  IF c.lastRequestMessages.isNull THEN c
  ELSE LET c1 == releaseActiveRequest(c)
           assistantMessage == createMessage(c1, "assistant", NoText, NoMeta)
           c2 == [c1 EXCEPT !.nextId = @ + 1]
           c3 == setMessages(c2, Append(c2.messagesSubject, assistantMessage))
       IN runCompletion(c3, c3.lastRequestMessages.value, assistantMessage.id, script)

\* mutant: the completion is re-issued with the list currently shown
retryLast_currentMessages(c, script) ==
  IF c.lastRequestMessages.isNull THEN c
  ELSE LET c1 == releaseActiveRequest(c)
           assistantMessage == createMessage(c1, "assistant", NoText, NoMeta)
           c2 == [c1 EXCEPT !.nextId = @ + 1]
           c3 == setMessages(c2, Append(c2.lastRequestMessages.value, assistantMessage))
       IN runCompletion(c3, c3.messagesSubject, assistantMessage.id, script)

retryLast(c, script) ==
  IF c.lastRequestMessages.isNull THEN c
  ELSE LET c1 == releaseActiveRequest(c)
           assistantMessage == createMessage(c1, "assistant", NoText, NoMeta)
           c2 == [c1 EXCEPT !.nextId = @ + 1]
           c3 == setMessages(c2, Append(c2.lastRequestMessages.value, assistantMessage))
       IN runCompletion(c3, c3.lastRequestMessages.value, assistantMessage.id, script)

\* An observer of status$ or state$ that, when it is handed status 'error',
\* calls retryLast() or send("x") from inside its callback, once.
reenter(c, how, script) ==
  IF how = "retryLast" THEN retryLast(c, script)
  ELSE send(c, <<"x">>, NoMeta, script)

\* setStatus("error") with such an observer on projection proj: status$ hands
\* the value over inside statusSubject.next, before emitState() runs, and
\* state$ inside the stateSubject.next of emitState().
setStatusObserved(c, proj, how, script) ==
  IF c.completed THEN setStatus(c, "error")
  ELSE IF proj = "status"
  THEN emitState(With(Emit([c EXCEPT !.statusSubject = "error"], "status"),
                      LAMBDA c1 : reenter(c1, how, script)))
  ELSE With(setStatus(c, "error"), LAMBDA c1 : reenter(c1, how, script))

\* error callback of the subscriber of a request, with such an observer
errorHandlerObserved(c, error, proj, how, script) ==
  releaseActiveRequest(setStatusObserved(setError(c, error), proj, how, script))

\* The producer of request r pushes an error into its subscriber, with such
\* an observer attached.
DeliverObserved(c, r, n, proj, how, script) ==
  IF c.requests[r].sub # "live" THEN c
  ELSE errorHandlerObserved(
         [Observe(c, r, n) EXCEPT !.requests[r].sub = "terminated"],
         n.err, proj, how, script)

\* projection.subscribe(observer) by a new observer: a BehaviorSubject hands
\* it the value it holds, or, once completed, only the completion.
subscribe(c, proj) ==
  IF c.completed
  THEN [c EXCEPT !.replayed = <<[n |-> "complete", value |-> NoValue]>>]
  ELSE [c EXCEPT !.replayed =
          <<[n |-> "next",
             value |-> CASE proj = "messages" -> c.messagesSubject
                         [] proj = "status" -> c.statusSubject
                         [] proj = "error" -> c.errorSubject
                         [] proj = "state" -> c.stateSubject]>>]

\* mutant: only the status is set
cancel_statusOnly(c) == setStatus(c, "cancelled")

cancel(c) == setStatus(releaseActiveRequest(c), "cancelled")

\* subject.complete(): every observer of the projection gets its completion
\* notification, unless the subject has completed before.
complete(c, proj) ==
  IF c.completed THEN c ELSE [c EXCEPT !.completions = Append(@, proj)]

\* mutant: the combined-state subject is not completed
destroy_forgetState(c) ==
  LET c1 == releaseActiveRequest(c)
      c2 == complete(c1, "messages")
      c3 == complete(c2, "status")
      c4 == complete(c3, "error")
  IN [c4 EXCEPT !.completed = TRUE]

destroy(c) ==
  LET c1 == releaseActiveRequest(c)
      c2 == complete(c1, "messages")
      c3 == complete(c2, "status")
      c4 == complete(c3, "error")
      c5 == complete(c4, "state")
  IN [c5 EXCEPT !.completed = TRUE]

\* --------------------------------------------------------------- actions
\* The record of the last operation: its arguments and the callbacks it ran.
Op(name) ==
  [op |-> name, content |-> NoText, r |-> 0, n |-> NoValue, pushed |-> 0,
   observed |-> <<>>, invoked |-> 0, liveAtSubscribe |-> 0, unabortedAtCreate |-> 0,
   passed |-> <<>>, statusAtInvoke |-> "-", errorAtInvoke |-> "-",
   completions |-> <<>>, proj |-> "-", replayed |-> <<>>, from |-> "-"]

Commit(c, l) ==
  \E c0 \in {c} :
    /\ messagesSubject' = c0.messagesSubject
    /\ statusSubject' = c0.statusSubject
    /\ errorSubject' = c0.errorSubject
    /\ stateSubject' = c0.stateSubject
    /\ completed' = c0.completed
    /\ activeAbortController' = c0.activeAbortController
    /\ activeSubscription' = c0.activeSubscription
    /\ lastRequestMessages' = c0.lastRequestMessages
    /\ requests' = c0.requests
    /\ nextId' = c0.nextId
    /\ emits' = c0.emits
    /\ last' = [l EXCEPT
         !.observed = c0.observed,
         !.invoked = c0.invoked,
         !.liveAtSubscribe = c0.liveAtSubscribe,
         !.unabortedAtCreate = c0.unabortedAtCreate,
         !.passed = c0.passed,
         !.statusAtInvoke = c0.statusAtInvoke,
         !.errorAtInvoke = c0.errorAtInvoke,
         !.completions = c0.completions,
         !.replayed = c0.replayed]
    /\ pushed' = pushed + l.pushed
    /\ UNCHANGED <<model, call, connections, consumers, asyncController>>

\* the state of a controller that was just constructed around capability m
Constructed(m, initialMessages) ==
  [model |-> m, messagesSubject |-> initialMessages, statusSubject |-> "idle",
   errorSubject |-> NoError,
   stateSubject |-> [messages |-> initialMessages, status |-> "idle", error |-> NoError],
   completed |-> FALSE, activeAbortController |-> 0, activeSubscription |-> 0,
   lastRequestMessages |-> [isNull |-> TRUE, value |-> <<>>],
   requests |-> <<>>, nextId |-> 1, emits |-> <<>>]

NoTwin == Constructed("-", <<>>)

\* mutant: the combined state starts without the initial messages
CreatedFrom_emptySnapshot(options) ==
  /\ messagesSubject \in options
  /\ statusSubject = "idle"
  /\ errorSubject = NoError
  /\ stateSubject = [messages |-> <<>>, status |-> "idle", error |-> NoError]
  /\ completed = FALSE
  /\ activeAbortController = 0
  /\ activeSubscription = 0
  /\ lastRequestMessages = [isNull |-> TRUE, value |-> <<>>]
  /\ requests = <<>>
  /\ nextId = 1
  /\ pushed = 0
  /\ emits = <<>>
  /\ last = Op("create")

\* createChatController(model, options), whatever the capability, with the
\* initialMessages option one of options (copied element by element)
CreatedFrom(options) ==
  /\ \E initialMessages \in options :
       messagesSubject = [i \in 1..Len(initialMessages) |-> initialMessages[i]]
  /\ statusSubject = "idle"
  /\ errorSubject = NoError
  /\ stateSubject = [messages |-> messagesSubject, status |-> "idle", error |-> NoError]
  /\ completed = FALSE
  /\ activeAbortController = 0
  /\ activeSubscription = 0
  /\ lastRequestMessages = [isNull |-> TRUE, value |-> <<>>]
  /\ requests = <<>>
  /\ nextId = 1
  /\ pushed = 0
  /\ emits = <<>>
  /\ last = Op("create")

Created == CreatedFrom(InitialMessagesOptions)

\* no async controller of its own is looked at
NoAsync == [executor |-> "-"]

\* no streamText / generateText call of its own is looked at
NoCall == [api |-> "-", signal |-> "none", onFinish |-> FALSE, invoked |-> 0,
           finishCalls |-> 0, shared |-> 0]

Init ==
  /\ model \in ModelKinds
  /\ Created
  /\ twin = NoTwin
  /\ call = NoCall /\ connections = <<>> /\ consumers = <<>>
  /\ asyncController = NoAsync

SendUpTo(maxRequests, metas) ==
  \E content \in Texts, meta \in metas :
   \E script \in IF Len(Trim(content)) = 0 THEN {<<>>}
                 ELSE IF Len(requests) < maxRequests
                      THEN Scripts(model, MaxNotifications - pushed) ELSE {} :
    /\ Commit(send(Ctl, content, meta, script),
              [Op("send") EXCEPT !.content = content, !.pushed = Len(script),
                                 !.from = IF Len(Trim(content)) > 0
                                          THEN statusSubject ELSE "-"])
    /\ UNCHANGED twin

Send == SendUpTo(MaxRequests, {NoMeta})

RetryLastUpTo(maxRequests) ==
  \E script \in IF lastRequestMessages.isNull THEN {<<>>}
                 ELSE IF Len(requests) < maxRequests
                      THEN Scripts(model, MaxNotifications - pushed) ELSE {} :
    /\ Commit(retryLast(Ctl, script),
              [Op("retryLast") EXCEPT !.pushed = Len(script),
                                      !.from = IF lastRequestMessages.isNull
                                               THEN "-" ELSE statusSubject])
    /\ UNCHANGED twin

RetryLast == RetryLastUpTo(MaxRequests)

Cancel == Commit(cancel(Ctl), Op("cancel")) /\ UNCHANGED twin

Destroy == Commit(destroy(Ctl), Op("destroy")) /\ UNCHANGED twin

\* The producer of request r pushes one more notification after subscribe()
\* has returned, whether or not anybody is still subscribed.  A subscriber
\* that was handed error or complete is stopped: pushing into it does nothing
\* at all, and those pushes are left out.
AdapterNotify ==
  \E r \in 1..Len(requests), n \in Notifications(model) :
    /\ pushed < MaxNotifications
    /\ requests[r].sub # "terminated"
    /\ Commit(Deliver(Ctl, r, n), [Op("notify") EXCEPT !.r = r, !.n = n, !.pushed = 1])
    /\ UNCHANGED twin

Next == Send \/ RetryLast \/ Cancel \/ Destroy \/ AdapterNotify

Spec == Init /\ [][Next]_vars

\* A controller that is only sent to and retried, over more completions.
SendAgain == SendUpTo(MaxReplays, {NoMeta})

RetryAgain == RetryLastUpTo(MaxReplays)

NextReplay == SendAgain \/ RetryAgain \/ AdapterNotify

SpecReplay == Init /\ [][NextReplay]_vars

\* A controller whose projections new observers attach to at any time.
Subscribe ==
  \E proj \in {"messages", "status", "error", "state"} :
    /\ Commit(subscribe(Ctl, proj), [Op("subscribe") EXCEPT !.proj = proj])
    /\ UNCHANGED twin

SendObserved == SendUpTo(MaxObserved, {NoMeta})

RetryObserved == RetryLastUpTo(MaxObserved)

NextObserve ==
  SendObserved \/ RetryObserved \/ Cancel \/ Destroy \/ AdapterNotify \/ Subscribe

SpecObserve == Init /\ [][NextObserve]_vars

\* A controller created with two initial messages, or with none.
OrderedInitialMessages ==
  <<[id |-> 0, role |-> "system", content |-> <<"x">>, createdAt |-> 0,
     meta |-> NoMeta],
    [id |-> -1, role |-> "user", content |-> <<"x">>, createdAt |-> 0,
     meta |-> NoMeta]>>

InitOrdered ==
  /\ model \in ModelKinds
  /\ CreatedFrom({<<>>, OrderedInitialMessages})
  /\ twin = NoTwin
  /\ call = NoCall /\ connections = <<>> /\ consumers = <<>>
  /\ asyncController = NoAsync

SendOrdered == SendUpTo(MaxOrdered, {NoMeta})

RetryOrdered == RetryLastUpTo(MaxOrdered)

NextOrdered == SendOrdered \/ RetryOrdered \/ Cancel \/ Destroy \/ AdapterNotify

SpecOrdered == InitOrdered /\ [][NextOrdered]_vars

\* A controller with an observer that starts a completion from inside its
\* callback when the request in flight fails.
SendReentered == SendUpTo(MaxReentered, {NoMeta})

Reenter ==
  \E r \in 1..Len(requests), e \in AdapterErrors,
     proj \in {"status", "state"}, how \in {"retryLast", "send"} :
   \E script \in IF ~completed /\ pushed < MaxNotifications
                    /\ requests[r].sub = "live" /\ Len(requests) < MaxReentered
                 THEN Scripts(model, MaxNotifications - pushed - 1) ELSE {} :
    /\ Commit(DeliverObserved(Ctl, r, [n |-> "error", value |-> NoValue, err |-> e],
                              proj, how, script),
              [Op("reenter") EXCEPT !.r = r, !.proj = proj,
                 !.n = [n |-> "error", value |-> NoValue, err |-> e],
                 !.pushed = 1 + Len(script)])
    /\ UNCHANGED twin

NextReentered == SendReentered \/ AdapterNotify \/ Reenter

SpecReentered == Init /\ [][NextReentered]_vars

\* A controller whose adapter sequences all end: the producer of a request
\* whose subscription is live pushes its error or its completion.
SendLive == SendUpTo(MaxLive, {NoMeta})

AdapterTerminates ==
  \E r \in 1..Len(requests),
     n \in {m \in Notifications(model) : m.n \in {"error", "complete"}} :
    /\ requests[r].sub = "live"
    /\ Commit(Deliver(Ctl, r, n), [Op("notify") EXCEPT !.r = r, !.n = n])
    /\ UNCHANGED twin

NextLive ==
  SendLive \/ Cancel \/ Destroy \/ AdapterNotify \/ AdapterTerminates

\* the controller is created without initial messages
InitLive ==
  /\ model \in ModelKinds
  /\ CreatedFrom({<<>>})
  /\ twin = NoTwin
  /\ call = NoCall /\ connections = <<>> /\ consumers = <<>>
  /\ asyncController = NoAsync

SpecLive == InitLive /\ [][NextLive]_vars /\ WF_vars(AdapterTerminates)

\* Two controllers with the same options, one around a LanguageModel and one
\* around a ChatModelAdapter, are called in the same way, and their
\* capabilities hand over the same texts, failures and completions at the
\* same moments: the LanguageModel as text-delta events, the adapter as
\* strings.
Deliveries ==
  {[n |-> "next", text |-> t, err |-> NoError] : t \in {<<>>, <<"a">>}}
    \cup {[n |-> "error", text |-> NoText, err |-> e] : e \in AdapterErrors}
    \cup {[n |-> "complete", text |-> NoText, err |-> NoError]}

DeliveryScripts(len) == UNION {[1..n -> Deliveries] : n \in 0..len}

Shaped(m, d) ==
  IF d.n = "next"
  THEN [n |-> "next",
        value |-> IF isLanguageModel(m)
                  THEN [type |-> "text-delta", textDelta |-> d.text]
                  ELSE [kind |-> "string", content |-> d.text, done |-> FALSE],
        err |-> NoError]
  ELSE [n |-> d.n, value |-> NoValue, err |-> d.err]

ShapedAll(m, ds) == [i \in 1..Len(ds) |-> Shaped(m, ds[i])]

\* the second controller's closure, at the start of an operation
Working(t) ==
  [Ctl EXCEPT !.model = t.model, !.messagesSubject = t.messagesSubject,
              !.statusSubject = t.statusSubject, !.errorSubject = t.errorSubject,
              !.stateSubject = t.stateSubject, !.completed = t.completed,
              !.activeAbortController = t.activeAbortController,
              !.activeSubscription = t.activeSubscription,
              !.lastRequestMessages = t.lastRequestMessages,
              !.requests = t.requests, !.nextId = t.nextId]

\* ... and what it leaves behind
Stored(c) ==
  [model |-> c.model, messagesSubject |-> c.messagesSubject,
   statusSubject |-> c.statusSubject, errorSubject |-> c.errorSubject,
   stateSubject |-> c.stateSubject, completed |-> c.completed,
   activeAbortController |-> c.activeAbortController,
   activeSubscription |-> c.activeSubscription,
   lastRequestMessages |-> c.lastRequestMessages,
   requests |-> c.requests, nextId |-> c.nextId, emits |-> c.emits]

InitPair ==
  /\ model = "languageModel"
  /\ Created
  /\ twin \in {Constructed(m, messagesSubject) : m \in {"adapter", "abortingAdapter"}}
  /\ call = NoCall /\ connections = <<>> /\ consumers = <<>>
  /\ asyncController = NoAsync

SendBoth ==
  \E content \in Texts, meta \in Metas,
     ds \in DeliveryScripts(MaxNotifications - pushed) :
    /\ Len(Trim(content)) > 0 => Len(requests) < MaxRequests
    /\ Len(Trim(content)) = 0 => ds = <<>>
    /\ Commit(send(Ctl, content, meta, ShapedAll(model, ds)),
              [Op("send") EXCEPT !.content = content, !.pushed = Len(ds)])
    /\ twin' = Stored(send(Working(twin), content, meta, ShapedAll(twin.model, ds)))

RetryLastBoth ==
  \E ds \in DeliveryScripts(MaxNotifications - pushed) :
    /\ ~lastRequestMessages.isNull => Len(requests) < MaxRequests
    /\ lastRequestMessages.isNull => ds = <<>>
    /\ Commit(retryLast(Ctl, ShapedAll(model, ds)),
              [Op("retryLast") EXCEPT !.pushed = Len(ds)])
    /\ twin' = Stored(retryLast(Working(twin), ShapedAll(twin.model, ds)))

CancelBoth ==
  /\ Commit(cancel(Ctl), Op("cancel"))
  /\ twin' = Stored(cancel(Working(twin)))

\* the capabilities of both controllers push one more notification for their
\* request r
NotifyBoth ==
  \E r \in 1..Len(requests), d \in Deliveries :
    /\ pushed < MaxNotifications
    /\ requests[r].sub # "terminated" \/ twin.requests[r].sub # "terminated"
    /\ Commit(Deliver(Ctl, r, Shaped(model, d)),
              [Op("notify") EXCEPT !.r = r, !.n = Shaped(model, d), !.pushed = 1])
    /\ twin' = Stored(Deliver(Working(twin), r, Shaped(twin.model, d)))

NextPair == SendBoth \/ RetryLastBoth \/ CancelBoth \/ NotifyBoth

SpecPair == InitPair /\ [][NextPair]_vars

\* ------------------------------------------- streamText and generateText
\* One call of streamText(options) or generateText(options), and the
\* subscribers of what it returned: stream$, delta$ and text$, or the one
\* sequence of generateText.  Subscribers stay until their sequence ends.
Apis == {"streamText", "generateText"}

Views(api) == IF api = "streamText" THEN {"stream", "delta", "text"} ELSE {"result"}

\* TextStreamEvent, and the TextResult of doGenerate
TextStreamEvents ==
  {[type |-> "text-delta", textDelta |-> t] : t \in {<<"a">>, <<"b">>}}
    \cup {[type |-> "finish", textDelta |-> NoText],
          [type |-> "error", textDelta |-> NoText]}

TextResults == {[type |-> "result", textDelta |-> NoText]}

\* What the sequence returned by doStream / doGenerate can push.
ModelNotifications(api) ==
  {[n |-> "next", value |-> v, err |-> NoError] :
      v \in IF api = "streamText" THEN TextStreamEvents ELSE TextResults}
    \cup {[n |-> "error", value |-> NoValue, err |-> e] : e \in AdapterErrors}
    \cup {[n |-> "complete", value |-> NoValue, err |-> NoError]}

AbortNotification == [n |-> "error", value |-> NoValue, err |-> AbortError]

IsFinish(n) == n.n = "next" /\ n.value.type = "finish"

\* A sequence pushes nothing after error or complete, and a model finishes
\* a stream at most once.
WellFormed(script) ==
  /\ \A i \in 1..(Len(script) - 1) : script[i].n = "next"
  /\ Cardinality({i \in 1..Len(script) : IsFinish(script[i])}) <= 1

ModelScripts(api, len) ==
  {script \in UNION {[1..n -> ModelNotifications(api)] : n \in 0..len} :
     WellFormed(script)}

\* The call, its upstream subscriptions and its subscribers, threaded through
\* the operators below.
Streams == [call |-> call, connections |-> connections, consumers |-> consumers]

\* mutant: text$ hands over each delta as it comes
handTo_noScan(s, i, n) ==
  LET k == s.consumers[i]
  IN IF k.state # "live" THEN s
     ELSE IF n.n = "next"
     THEN LET s1 == [s EXCEPT !.consumers[i].seen = Append(@, n)]
          IN CASE k.view \in {"stream", "result"} ->
                    [s1 EXCEPT !.consumers[i].got = Append(@, n)]
               [] k.view \in {"delta", "text"} ->
                    IF n.value.type = "text-delta"
                    THEN [s1 EXCEPT !.consumers[i].got =
                            Append(@, [n EXCEPT !.value = n.value.textDelta])]
                    ELSE s1
     ELSE [s EXCEPT !.consumers[i].seen = Append(@, n),
                    !.consumers[i].got = Append(@, n),
                    !.consumers[i].state =
                       IF n.n = "error" THEN "errored" ELSE "completed"]

\* Subscriber i of a returned sequence is handed n by the sequence the view
\* is derived from: stream$ passes the event on, delta$ = filter(text-delta)
\* + map(textDelta), text$ = delta$ + scan(accumulated + delta, "").
handTo(s, i, n) ==
  LET k == s.consumers[i]
  IN IF k.state # "live" THEN s
     ELSE IF n.n = "next"
     THEN LET s1 == [s EXCEPT !.consumers[i].seen = Append(@, n)]
          IN CASE k.view \in {"stream", "result"} ->
                    [s1 EXCEPT !.consumers[i].got = Append(@, n)]
               [] k.view = "delta" ->
                    IF n.value.type = "text-delta"
                    THEN [s1 EXCEPT !.consumers[i].got =
                            Append(@, [n EXCEPT !.value = n.value.textDelta])]
                    ELSE s1
               [] k.view = "text" ->
                    IF n.value.type = "text-delta"
                    THEN [s1 EXCEPT
                            !.consumers[i].accumulated = @ \o n.value.textDelta,
                            !.consumers[i].got =
                               Append(@, [n EXCEPT !.value =
                                  k.accumulated \o n.value.textDelta])]
                    ELSE s1
     ELSE [s EXCEPT !.consumers[i].seen = Append(@, n),
                    !.consumers[i].got = Append(@, n),
                    !.consumers[i].state =
                       IF n.n = "error" THEN "errored" ELSE "completed"]

RECURSIVE handAll(_, _, _)
handAll(s, is, n) ==
  IF is = <<>> THEN s ELSE handAll(handTo(s, Head(is), n), Tail(is), n)

\* the observers of the subject share() holds, in subscription order
Observers(s) ==
  SelectSeq([i \in 1..Len(s.consumers) |-> i],
            LAMBDA i : s.consumers[i].state = "live")

\* tap((event) => { if (options.onFinish && event.type === "finish") ... })
tap(s, n) ==
  IF s.call.onFinish /\ n.value.type = "finish"
  THEN [s EXCEPT !.call.finishCalls = @ + 1]
  ELSE s

\* share(): a value goes to every observer of the subject
shareNext(s, n) == handAll(s, Observers(s), n)

\* mutant: a failure of the source ends the subject with a completion
shareTerminate_complete(s, n) ==
  handAll([s EXCEPT !.call.shared = 0], Observers(s),
          [n |-> "complete", value |-> NoValue, err |-> NoError])

\* share(): on error or complete of the source the connection and the
\* subject are reset, then the subject that was held is ended.
shareTerminate(s, n) ==
  handAll([s EXCEPT !.call.shared = 0], Observers(s), n)

\* mutant: generateText hands what one subscription pushes to every subscriber
downstream_allSubscribers(s, owner, n) ==
  IF n.n = "next" THEN shareNext(tap(s, n), n) ELSE shareTerminate(s, n)

\* What the subscriber of the model's sequence feeds: tap and share for
\* streamText, the subscriber itself for generateText.
downstream(s, owner, n) ==
  IF s.call.api = "streamText"
  THEN IF n.n = "next" THEN shareNext(tap(s, n), n) ELSE shareTerminate(s, n)
  ELSE handTo(s, owner, n)

\* The model's sequence pushes n into its subscription k.  A subscription
\* that was unsubscribed or has ended drops it; error and complete stop the
\* subscriber, pass on, and run the teardown (the abort listener is removed).
push(s, k, n) ==
  IF s.connections[k].sub # "live"
  THEN [s EXCEPT !.connections[k].attempts = @ + 1]
  ELSE IF n.n = "next"
  THEN downstream([s EXCEPT !.connections[k].attempts = @ + 1,
                            !.connections[k].events = Append(@, n)],
                  s.connections[k].owner, n)
  ELSE With(downstream([s EXCEPT !.connections[k].attempts = @ + 1,
                                 !.connections[k].events = Append(@, n),
                                 !.connections[k].sub = "terminated"],
                       s.connections[k].owner, n),
            LAMBDA s1 : [s1 EXCEPT !.connections[k].listening = FALSE])

RECURSIVE pushAll(_, _, _)
pushAll(s, k, script) ==
  IF script = <<>> THEN s ELSE pushAll(push(s, k, Head(script)), k, Tail(script))

\* source.subscribe(subscriber); script is what the sequence pushes inside it
subscribeSource(s, owner, listening, script) ==
  With([s EXCEPT
          !.connections = Append(@, [sub |-> "live", listening |-> listening,
                                     owner |-> owner, events |-> <<>>,
                                     attempts |-> 0]),
          !.call.shared = IF s.call.api = "streamText"
                          THEN Len(s.connections) + 1 ELSE @],
       LAMBDA s1 : pushAll(s1, Len(s1.connections), script))

\* mutant: the abort listener is not registered
applyAbortSignal_noListener(s, owner, script) ==
  IF s.call.signal = "none" THEN subscribeSource(s, owner, FALSE, script)
  ELSE IF s.call.signal = "aborted" THEN downstream(s, owner, AbortNotification)
  ELSE subscribeSource(s, owner, FALSE, script)

\* applyAbortSignal(signal)(source), subscribed to
applyAbortSignal(s, owner, script) ==
  IF s.call.signal = "none" THEN subscribeSource(s, owner, FALSE, script)
  ELSE IF s.call.signal = "aborted" THEN downstream(s, owner, AbortNotification)
  ELSE subscribeSource(s, owner, TRUE, script)

\* the subscription the new subscriber will be fed by: the one share() holds,
\* a new one, or none when the signal is aborted already
FeedOf(s) ==
  IF s.call.shared # 0 THEN s.call.shared
  ELSE IF s.call.signal = "aborted" THEN 0
  ELSE Len(s.connections) + 1

\* mutant: every subscriber gets a subscription to the source of its own
subscribeTo_noShare(s, view, script) ==
  With([s EXCEPT !.consumers = Append(@,
          [view |-> view, state |-> "live", got |-> <<>>, seen |-> <<>>,
           accumulated |-> NoText,
           feed |-> IF s.call.signal = "aborted" THEN 0 ELSE Len(s.connections) + 1,
           from |-> 0,
           signalAtSubscribe |-> s.call.signal])],
       LAMBDA s1 : applyAbortSignal(s1, Len(s1.consumers), script))

\* view.subscribe(observer): through share() for the sequences of
\* streamText (the observer joins the subject, and the source is subscribed
\* to unless a connection is held), directly for generateText.
subscribeTo(s, view, script) ==
  With([s EXCEPT !.consumers = Append(@,
          [view |-> view, state |-> "live", got |-> <<>>, seen |-> <<>>,
           accumulated |-> NoText, feed |-> FeedOf(s),
           from |-> IF s.call.shared # 0
                    THEN Len(s.connections[s.call.shared].events) ELSE 0,
           signalAtSubscribe |-> s.call.signal])],
       LAMBDA s1 :
         IF s1.call.shared # 0 THEN s1
         ELSE applyAbortSignal(s1, Len(s1.consumers), script))

\* onAbort of subscription k: subscriber.error(abort error), which stops the
\* subscriber, passes the error on and runs the teardown
onAbort(s, k) ==
  IF ~s.connections[k].listening THEN s
  ELSE downstream([s EXCEPT !.connections[k].sub = "unsubscribed",
                            !.connections[k].listening = FALSE],
                  s.connections[k].owner, AbortNotification)

RECURSIVE onAbortAll(_, _)
onAbortAll(s, k) ==
  IF k > Len(s.connections) THEN s ELSE onAbortAll(onAbort(s, k), k + 1)

\* controller.abort(): the signal is flagged and its listeners run
abortSignal(s) ==
  IF s.call.signal # "unaborted" THEN s
  ELSE onAbortAll([s EXCEPT !.call.signal = "aborted"], 1)

CommitStreams(s) ==
  \E s0 \in {s} :
    /\ call' = s0.call
    /\ connections' = s0.connections
    /\ consumers' = s0.consumers
    /\ UNCHANGED <<model, messagesSubject, statusSubject, errorSubject,
                   stateSubject, completed, activeAbortController,
                   activeSubscription, lastRequestMessages, requests, nextId,
                   pushed, emits, last, twin, asyncController>>

\* streamText(options) / generateText(options) has returned: the request was
\* built and handed to doStream / doGenerate.
InitStream ==
  /\ model = "languageModel"
  /\ Created /\ messagesSubject = <<>>
  /\ twin = NoTwin
  /\ \E api \in Apis, signal \in {"none", "unaborted", "aborted"} :
       call = [api |-> api, signal |-> signal,
               onFinish |-> api = "streamText", invoked |-> 1,
               finishCalls |-> 0, shared |-> 0]
  /\ connections = <<>>
  /\ consumers = <<>>
  /\ asyncController = NoAsync

\* the notifications the model's sequence has pushed, over all subscriptions
Attempts ==
  IF connections = <<>> THEN 0
  ELSE LET RECURSIVE Sum(_)
           Sum(k) == IF k = 0 THEN 0 ELSE connections[k].attempts + Sum(k - 1)
       IN Sum(Len(connections))

\* the events subscription k has passed on contain a finish event
Finished(k) == \E i \in 1..Len(connections[k].events) : IsFinish(connections[k].events[i])

SubscribeUpTo(maxConsumers, maxEvents) ==
  \E view \in Views(call.api), script \in ModelScripts(call.api, maxEvents - Attempts) :
    /\ Len(consumers) < maxConsumers
    /\ (call.shared # 0 \/ call.signal = "aborted") => script = <<>>
    /\ CommitStreams(subscribeTo(Streams, view, script))

\* The model's sequence pushes one more notification after subscribe() has
\* returned, whether or not its subscription is still held.
ModelNotifyUpTo(maxEvents) ==
  \E k \in 1..Len(connections), n \in ModelNotifications(call.api) :
    /\ Attempts < maxEvents
    /\ connections[k].sub # "terminated"
    /\ IsFinish(n) => ~Finished(k)
    /\ CommitStreams(push(Streams, k, n))

AbortSignal ==
  /\ call.signal = "unaborted"
  /\ CommitStreams(abortSignal(Streams))

SubscribeTo == SubscribeUpTo(MaxConsumers, MaxEvents)

ModelNotify == ModelNotifyUpTo(MaxEvents)

NextStream == SubscribeTo \/ ModelNotify \/ AbortSignal

SpecStream == InitStream /\ [][NextStream]_vars

\* The same call with fewer subscribers and a longer sequence, so that a
\* subscriber can come after the sequence has ended for an earlier one.
SubscribeNext == SubscribeUpTo(MaxSuccessive, MaxLongEvents)

ModelNotifyLong == ModelNotifyUpTo(MaxLongEvents)

NextSuccessive == SubscribeNext \/ ModelNotifyLong \/ AbortSignal

SpecSuccessive == InitStream /\ [][NextSuccessive]_vars

\* ------------------------------------------------- createAsyncController
\* The executor handed to createAsyncController: its sequences ignore the
\* signal, or fail with the abort error when the signal fires.
Executors == {"ignoring", "aborting"}
Requests == {"A", "B"}
Datas == {"d1", "d2"}
ExecutorErrors == {"E1"}
NoData == "null"

\* what the sequence an executor returned can push
ExecutorNotifications ==
  {[n |-> "next", value |-> d, err |-> NoError] : d \in Datas}
    \cup {[n |-> "error", value |-> NoData, err |-> e] : e \in ExecutorErrors}
    \cup {[n |-> "complete", value |-> NoData, err |-> NoError]}

\* what it pushes synchronously inside subscribe()
ExecutorScripts(len) == UNION {[1..n -> ExecutorNotifications] : n \in 0..len}

\* the initial value of stateSubject
AsyncIdle ==
  [status |-> "idle", data |-> NoData, error |-> NoError, updatedAt |-> "null"]

NoCancel == [k |-> 0, data |-> "-", error |-> "-"]

\* the last operation on the async controller and what it did
AsyncOp(name) ==
  [op |-> name, k |-> 0, n |-> [n |-> "-", value |-> NoData, err |-> NoError],
   script |-> <<>>, before |-> AsyncIdle, from |-> 0, inFlight |-> 0,
   live |-> FALSE, abortedAtSubscribe |-> FALSE, subAtSubscribe |-> "-",
   invoked |-> 0]

\* an async controller that was just constructed around an executor;
\* seen is what an observer of state$ subscribed at creation was handed
ConstructedAsync(executor) ==
  [executor |-> executor, stateSubject |-> AsyncIdle, completed |-> FALSE,
   activeAbortController |-> 0, innerSubscriber |-> 0, executions |-> <<>>,
   seen |-> <<AsyncIdle>>, pushes |-> 0, cancels |-> 0, sinceCancel |-> NoCancel,
   last |-> AsyncOp("create")]

\* stateSubject.next(nextState); a completed subject keeps the value and
\* hands it to nobody
asyncSetState(a, nextState) ==
  [a EXCEPT !.stateSubject = nextState,
            !.seen = IF a.completed THEN @ ELSE Append(@, nextState)]

asyncSetStatus(a, status) ==
  asyncSetState(a, [a.stateSubject EXCEPT !.status = status])

\* mutant: an error result is stored without the rest of the current state
subscriberNext_dropsData(a, result) ==
  IF result.kind = "success"
  THEN [asyncSetState(a, [status |-> "success", data |-> result.data,
                          error |-> NoError, updatedAt |-> "now"])
          EXCEPT !.activeAbortController = 0]
  ELSE [asyncSetState(a, [status |-> "error", data |-> NoData,
                          error |-> result.error, updatedAt |-> "now"])
          EXCEPT !.activeAbortController = 0]

\* the subscriber of the switchMap pipeline is handed a result
subscriberNext(a, result) ==
  IF result.kind = "success"
  THEN [asyncSetState(a, [status |-> "success", data |-> result.data,
                          error |-> NoError, updatedAt |-> "now"])
          EXCEPT !.activeAbortController = 0]
  ELSE [asyncSetState(a, [a.stateSubject EXCEPT !.status = "error",
                                                 !.error = result.error,
                                                 !.updatedAt = "now"])
          EXCEPT !.activeAbortController = 0]

\* the inner sequence of execution k has completed
innerComplete(a, k) ==
  [a EXCEPT !.executions[k].sub = "terminated",
            !.innerSubscriber = IF @ = k THEN 0 ELSE @]

\* The producer of execution k pushes n.  A subscription that was
\* unsubscribed or has ended hands nothing on; map turns a value into a
\* success result, catchError turns a failure into an error result followed
\* by completion.
innerNotify(a, k, n) ==
  IF a.executions[k].ended THEN a
  ELSE With([a EXCEPT !.executions[k].ended = (n.n # "next")], LAMBDA a1 :
         IF a1.executions[k].sub # "live" THEN a1
         ELSE IF n.n = "next"
              THEN subscriberNext(a1, [kind |-> "success", data |-> n.value,
                                       error |-> NoError])
              ELSE IF n.n = "error"
                   THEN With(subscriberNext(a1, [kind |-> "error", data |-> NoData,
                                                 error |-> n.err]),
                             LAMBDA a2 : innerComplete(a2, k))
                   ELSE innerComplete(a1, k))

RECURSIVE innerNotifyAll(_, _, _, _)
innerNotifyAll(a, k, script, i) ==
  IF i > Len(script) THEN a
  ELSE With(innerNotify(a, k, script[i]), LAMBDA a1 :
         innerNotifyAll(a1, k, script, i + 1))

\* AbortController.abort() of execution k: the signal is flagged and its
\* listeners run
abortExecution(a, k) ==
  IF a.executions[k].aborted THEN a
  ELSE With([a EXCEPT !.executions[k].aborted = TRUE], LAMBDA a1 :
         IF a1.executor = "aborting"
         THEN innerNotify(a1, k, [n |-> "error", value |-> NoData, err |-> AbortError])
         ELSE a1)

asyncReleaseActiveRequest(a) ==
  IF a.activeAbortController # 0
  THEN With(abortExecution(a, a.activeAbortController), LAMBDA a1 :
         [a1 EXCEPT !.activeAbortController = 0])
  ELSE a

\* switchMap's project function: the request in flight is released, the
\* state becomes loading, the executor is invoked
project(a, request) ==
  With(asyncReleaseActiveRequest(a), LAMBDA a1 :
    With(asyncSetState([a1 EXCEPT !.activeAbortController = Len(a1.executions) + 1],
                       [a1.stateSubject EXCEPT !.status = "loading",
                                               !.error = NoError]),
         LAMBDA a2 :
           [a2 EXCEPT !.executions = Append(@, [request |-> request,
                                                 aborted |-> FALSE,
                                                 sub |-> "created",
                                                 ended |-> FALSE]),
                      !.last.invoked = @ + 1]))

\* mutant: the inner subscription is kept when the next request comes
unsubscribeInner_kept(a) == a

\* innerSubscriber?.unsubscribe()
unsubscribeInner(a) ==
  IF a.innerSubscriber # 0
  THEN [a EXCEPT !.executions[a.innerSubscriber].sub = "unsubscribed"]
  ELSE a

\* switchMap is handed a request: the inner subscription is unsubscribed,
\* project is called, the sequence it returned is subscribed
switchMapNext(a, request, script) ==
  With(unsubscribeInner(a), LAMBDA a1 :
    With(project(a1, request), LAMBDA a2 :
      With([a2 EXCEPT
              !.innerSubscriber = Len(a2.executions),
              !.executions[Len(a2.executions)].sub = "live",
              !.sinceCancel = NoCancel,
              !.last.abortedAtSubscribe =
                 IF a.last.inFlight = 0 THEN FALSE
                 ELSE a2.executions[a.last.inFlight].aborted,
              !.last.subAtSubscribe =
                 IF a.last.inFlight = 0 THEN "-"
                 ELSE a2.executions[a.last.inFlight].sub],
           LAMBDA a3 : innerNotifyAll(a3, Len(a3.executions), script, 1))))

\* requestSubject.next(request); a completed subject hands it to nobody
execute(a, request, script) ==
  IF a.completed THEN a ELSE switchMapNext(a, request, script)

asyncCancel(a) ==
  With(asyncReleaseActiveRequest(a), LAMBDA a1 :
    With(asyncSetStatus(a1, "cancelled"), LAMBDA a2 :
      [a2 EXCEPT !.sinceCancel =
          IF a.last.inFlight = 0 THEN @
          ELSE [k |-> a.last.inFlight, data |-> a.stateSubject.data,
                error |-> a.stateSubject.error]]))

\* takeUntil(destroySubject) ends the pipeline and with it the inner
\* subscription; the three subjects are completed
asyncDestroy(a) ==
  With(asyncReleaseActiveRequest(a), LAMBDA a1 :
    [a1 EXCEPT !.executions =
                  [k \in 1..Len(@) |->
                     IF k = a1.innerSubscriber /\ @[k].sub = "live"
                     THEN [@[k] EXCEPT !.sub = "unsubscribed"] ELSE @[k]],
               !.innerSubscriber = 0,
               !.completed = TRUE])

\* The controller as an operation finds it: the record of the operation is
\* started, with the state before it, the length of what the observer has
\* been handed, and the execution in flight (its sequence is subscribed and
\* has pushed no result yet).
Async(l) ==
  [asyncController EXCEPT
     !.last = [l EXCEPT
                 !.before = asyncController.stateSubject,
                 !.from = Len(asyncController.seen),
                 !.inFlight =
                    IF asyncController.innerSubscriber =
                         asyncController.activeAbortController
                    THEN asyncController.activeAbortController ELSE 0]]

CommitAsync(a) ==
  /\ asyncController' = a
  /\ UNCHANGED <<model, messagesSubject, statusSubject, errorSubject,
                 stateSubject, completed, activeAbortController,
                 activeSubscription, lastRequestMessages, requests, nextId,
                 pushed, emits, last, twin, call, connections, consumers>>

InitAsync ==
  /\ model = "adapter"
  /\ Created /\ messagesSubject = <<>>
  /\ twin = NoTwin
  /\ call = NoCall /\ connections = <<>> /\ consumers = <<>>
  /\ asyncController \in {ConstructedAsync(e) : e \in Executors}

Execute ==
  \E request \in Requests :
   \E script \in IF Len(asyncController.executions) < MaxExecutes
                 THEN ExecutorScripts(MaxPushes - asyncController.pushes) ELSE {} :
     CommitAsync([execute(Async([AsyncOp("execute") EXCEPT !.script = script]),
                          request, script)
                    EXCEPT !.pushes = @ + Len(script)])

CancelAsync ==
  /\ asyncController.cancels < MaxCancels
  /\ CommitAsync([asyncCancel(Async(AsyncOp("cancel"))) EXCEPT !.cancels = @ + 1])

DestroyAsync ==
  /\ ~asyncController.completed
  /\ CommitAsync(asyncDestroy(Async(AsyncOp("destroy"))))

\* the producer of a sequence an executor returned pushes a notification
ExecutorNotify ==
  \E k \in 1..Len(asyncController.executions), n \in ExecutorNotifications :
    /\ asyncController.pushes < MaxPushes
    /\ ~asyncController.executions[k].ended
    /\ CommitAsync([innerNotify(Async([AsyncOp("notify") EXCEPT
                                         !.k = k, !.n = n,
                                         !.live = asyncController.executions[k].sub = "live"]),
                                k, n)
                      EXCEPT !.pushes = @ + 1])

NextAsync == Execute \/ CancelAsync \/ DestroyAsync \/ ExecutorNotify

SpecAsync == InitAsync /\ [][NextAsync]_vars

\* ---------------------------------------------------------------- claims
Newest == Len(requests)

\* the messages created as the assistant placeholder of request r
AssistantMessages(r) ==
  {i \in 1..Len(messagesSubject) : messagesSubject[i].id = requests[r].assistantMessageId}

IsBlank(s) == \A i \in 1..Len(s) : s[i] = " "

\* t is s without its leading and trailing blanks
IsTrimOf(t, s) ==
  \E i \in 0..Len(s), j \in 0..Len(s) :
    /\ i + Len(t) + j = Len(s)
    /\ t = SubSeq(s, i + 1, i + Len(t))
    /\ \A k \in 1..i : s[k] = " "
    /\ \A k \in (Len(s) - j + 1)..Len(s) : s[k] = " "
    /\ t # <<>> => t[1] # " " /\ t[Len(t)] # " "

LastObserved == last.observed[Len(last.observed)]

\* a step that changes nothing a caller, an observer or an adapter can see
NothingChanged ==
  /\ UNCHANGED <<messagesSubject, statusSubject, errorSubject, stateSubject>>
  /\ UNCHANGED <<activeAbortController, activeSubscription, lastRequestMessages>>
  /\ LiveRequests(requests') = LiveRequests(requests)
  /\ UnabortedRequests(requests') = UnabortedRequests(requests)
  /\ emits' = <<>> /\ last'.invoked = 0 /\ last'.observed = <<>>

MessagesEmits == Cardinality({i \in 1..Len(emits) : emits[i].proj = "messages"})

NonEmptyObserved ==
  Cardinality({i \in 1..Len(last.observed) : TextOf(last.observed[i].n) # NoText})

\* C1: at most one subscription started by the controller is live and at most
\* one of its abort controllers is un-aborted, in every state and at the
\* moment a new request is created and subscribed: send and retryLast have
\* aborted and unsubscribed the previous request by then.
C1_AtMostOneActive ==
  /\ Cardinality(LiveRequests(requests)) <= 1
  /\ Cardinality(UnabortedRequests(requests)) <= 1
  /\ last.liveAtSubscribe = 0
  /\ last.unabortedAtCreate = 0

\* a first request that never finished was unsubscribed and aborted, and a
\* second one is in flight
C1_Witness ==
  /\ Len(requests) = 2
  /\ requests[1].sub = "unsubscribed" /\ requests[1].aborted
  /\ ~requests[1].doneSeen /\ ~completed
  /\ requests[2].sub = "live" /\ ~requests[2].aborted
  /\ last.op \in {"send", "retryLast"}

\* C2: whatever the sequence of a superseded request pushes after send or
\* retryLast started a newer request is not handed to the controller and
\* changes no message; the superseded assistant message keeps the text it
\* had received.
C2_SupersededIsSilent ==
  /\ (last.op = "notify" /\ last.r < Newest) =>
        last.observed = <<>> /\ emits = <<>>
  /\ \A r \in 1..Newest : \A i \in AssistantMessages(r) :
        messagesSubject[i].content = requests[r].text

\* the sequence of a superseded request, unsubscribed before it finished,
\* pushes a non-empty fragment while the newer request is streaming
C2_Witness ==
  /\ last.op = "notify" /\ last.r = 1 /\ Newest = 2
  /\ requests[1].sub = "unsubscribed" /\ ~requests[1].doneSeen
  /\ TextOf(last.n) # NoText
  /\ AssistantMessages(1) # {}
  /\ requests[2].sub = "live" /\ statusSubject = "streaming" /\ ~completed

\* C3: cancel() leaves status 'cancelled' with no live subscription, and while
\* the status is 'cancelled' nothing an adapter sequence pushes (value,
\* completion or failure) changes messages, status or error.
C3_CancelStops ==
  [][/\ last'.op = "cancel" =>
          statusSubject' = "cancelled" /\ LiveRequests(requests') = {}
     /\ (statusSubject = "cancelled" /\ last'.op = "notify") =>
          /\ UNCHANGED <<messagesSubject, statusSubject, errorSubject, stateSubject>>
          /\ last'.observed = <<>>]_vars

\* the sequence of a request that was unsubscribed before it finished pushes
\* a fragment while the status is 'cancelled'
C3_Witness ==
  /\ last.op = "notify" /\ statusSubject = "cancelled" /\ ~completed
  /\ last.r = Newest
  /\ requests[last.r].sub = "unsubscribed" /\ ~requests[last.r].doneSeen
  /\ TextOf(last.n) # NoText

\* C4: cancel() leaves the error field as it was, for every kind of adapter,
\* whether or not a request is in flight.
C4_CancelKeepsError ==
  [][last'.op = "cancel" => errorSubject' = errorSubject /\ stateSubject'.error = errorSubject]_vars

\* C5: a send with non-blank text makes the message list longer by two: the
\* user message with the trimmed text, then the assistant message.
C5_SendAppendsPair ==
  [][(last'.op = "send" /\ ~IsBlank(last'.content)) =>
       /\ Len(messagesSubject') = Len(messagesSubject) + 2
       /\ messagesSubject'[Len(messagesSubject') - 1].role = "user"
       /\ IsTrimOf(messagesSubject'[Len(messagesSubject') - 1].content, last'.content)
       /\ messagesSubject'[Len(messagesSubject')].role = "assistant"
       /\ stateSubject'.messages = messagesSubject']_vars

\* a second send, of a padded text
C5_Witness ==
  /\ last.op = "send" /\ ~IsBlank(last.content) /\ last.content[1] = " "
  /\ Len(messagesSubject) >= 4 /\ Newest = 2

\* C6: a send whose content is blank changes nothing: messages, status and
\* error stay, nothing is emitted, the adapter is not invoked, and a request
\* in flight keeps its subscription and its un-aborted signal.
C6_BlankSendIsNoOp ==
  [][(last'.op = "send" /\ IsBlank(last'.content)) => NothingChanged]_vars

\* a blank send while a request is in flight
C6_Witness ==
  /\ last.op = "send" /\ IsBlank(last.content) /\ last.content # <<>>
  /\ LiveRequests(requests) # {} /\ activeAbortController # 0
  /\ statusSubject \in {"loading", "streaming"}

\* C7: the assistant message of the current request holds exactly the
\* fragments its sequence delivered, in the order of delivery; messages$
\* emits once per non-empty fragment (plus once for the list send/retryLast
\* install); and when the sequence completes the status is 'idle'.
C7_FragmentsInOrder ==
  /\ Newest > 0 =>
       /\ AssistantMessages(Newest) # {}
       /\ \A i \in AssistantMessages(Newest) :
            messagesSubject[i].content = requests[Newest].text
  /\ ~completed =>
       MessagesEmits = NonEmptyObserved + (IF last.invoked > 0 THEN 1 ELSE 0)
  /\ (last.observed # <<>> /\ LastObserved.n.n = "complete") =>
       /\ statusSubject = "idle"
       /\ LastObserved.r = Newest

\* two different fragments were delivered one after the other
C7_Witness ==
  /\ Newest > 0 /\ requests[Newest].text = <<"a", "b">>
  /\ \E i \in AssistantMessages(Newest) : messagesSubject[i].content = <<"a", "b">>

\* C8: when the sequence of the active request fails with an adapter error,
\* status is 'error', the error field is that very error, the request's
\* subscription is no longer live and its signal is aborted, and the
\* assistant message keeps what was streamed.
C8_ErrorIsSurfaced ==
  (last.observed # <<>> /\ LastObserved.n.n = "error"
     /\ LastObserved.n.err \in AdapterErrors) =>
    /\ statusSubject = "error"
    /\ errorSubject = LastObserved.n.err
    /\ stateSubject.error = LastObserved.n.err
    /\ requests[LastObserved.r].sub = "terminated"
    /\ requests[LastObserved.r].aborted
    /\ activeAbortController = 0
    /\ \A i \in AssistantMessages(LastObserved.r) :
         messagesSubject[i].content = requests[LastObserved.r].text

\* a failure after a fragment had been streamed
C8_Witness ==
  /\ last.op = "notify" /\ last.n.n = "error" /\ last.observed # <<>>
  /\ requests[last.r].text # NoText
  /\ statusSubject = "error"

\* C9: with the low-level adapter a chunk with the done flag finalizes the
\* request: status 'idle', the subscription torn down, and nothing the
\* sequence pushes later is handed to the controller.
C9_DoneFinalizes ==
  /\ \A r \in 1..Newest : requests[r].doneSeen => requests[r].sub # "live"
  /\ (last.observed # <<>> /\ DoneOf(LastObserved.n)) => statusSubject = "idle"
  /\ \A i \in 1..Len(last.observed) : \A j \in (i + 1)..Len(last.observed) :
       ~(DoneOf(last.observed[i].n) /\ last.observed[j].r = last.observed[i].r
           /\ last.observed[j].n.err # AbortError)

\* C10: retryLast() before any completion was started changes nothing.
C10_RetryWithoutRequest ==
  [][(last'.op = "retryLast" /\ requests = <<>>) => NothingChanged]_vars

\* retryLast on a controller that never started a completion
C10_Witness == last.op = "retryLast" /\ requests = <<>> /\ lastRequestMessages.isNull

\* C11: retryLast() with a retained baseline invokes the adapter exactly once
\* and hands it the list the adapter was handed by the most recent send or
\* retryLast, unchanged and in the same order (the list ends with the user
\* message; no assistant message and no second user message is added); the
\* retained list is replaced only when the adapter is invoked, by the list
\* it is handed, so every further retryLast replays the same baseline.
C11_RetryReplaysBaseline ==
  [][/\ (last'.op = "retryLast" /\ ~lastRequestMessages.isNull) =>
          /\ last'.invoked = 1
          /\ last'.passed = lastRequestMessages.value
          /\ lastRequestMessages' = lastRequestMessages
     /\ last'.invoked > 0 => lastRequestMessages'.value = last'.passed
     /\ last'.invoked = 0 => lastRequestMessages' = lastRequestMessages
     /\ last'.invoked <= 1]_vars

\* a second retryLast in a row, after a send whose answer had been streamed
C11_Witness ==
  /\ last.op = "retryLast" /\ last.invoked = 1 /\ Newest = 3
  /\ requests[1].text # NoText
  /\ Len(last.passed) > 0 /\ last.passed[Len(last.passed)].role = "user"
  /\ \A i \in 1..Len(last.passed) : last.passed[i].id # requests[2].assistantMessageId

\* the assistant message of the newest request, holding what that request's
\* sequence has delivered
NewestAssistant ==
  [id |-> requests[Newest].assistantMessageId, role |-> "assistant",
   createdAt |-> requests[Newest].assistantMessageId, meta |-> NoMeta,
   content |-> requests[Newest].text]

\* C12: once a completion was started the message list is the retained
\* baseline followed by exactly one assistant message, before and after
\* every retryLast (so retryLast leaves the length as it was: 2 after a
\* single send): the assistant message of the newest request, with an id
\* that no message of the baseline and no earlier request's assistant
\* message has, holding only what the newest request's own sequence
\* delivered; retryLast hands the adapter that same baseline.
C12_RetryReplacesAssistant ==
  ~lastRequestMessages.isNull =>
    /\ messagesSubject = Append(lastRequestMessages.value, NewestAssistant)
    /\ getState(Ctl).messages = messagesSubject
    /\ \A i \in 1..Len(lastRequestMessages.value) :
         lastRequestMessages.value[i].id # NewestAssistant.id
    /\ \A r \in 1..(Newest - 1) :
         requests[r].assistantMessageId # NewestAssistant.id
    /\ (last.op = "retryLast" /\ last.invoked = 1) =>
         last.passed = lastRequestMessages.value

\* a send whose answer had been streamed, then a retryLast whose sequence
\* completes: two messages, the second one the retry's
C12_Witness ==
  /\ last.op = "retryLast" /\ Newest = 2 /\ ~completed
  /\ requests[1].text # NoText
  /\ last.observed # <<>> /\ LastObserved.n.n = "complete" /\ LastObserved.r = 2
  /\ Len(messagesSubject) = 2 /\ messagesSubject[1].role = "user"
  /\ messagesSubject[2] = NewestAssistant /\ statusSubject = "idle"

\* the ids of a message list, in list order
Ids(messages) == [i \in 1..Len(messages) |-> messages[i].id]

IsPrefix(s, t) == Len(s) <= Len(t) /\ s = SubSeq(t, 1, Len(s))

\* C13 as claimed: the message list is append-only: across send, retryLast,
\* cancel, destroy and adapter callbacks its length never decreases and every
\* message in it stays in it, at its position.
C13_AppendOnly ==
  [][IsPrefix(Ids(messagesSubject), Ids(messagesSubject'))]_vars

\* C13 as amended: the length never decreases, and every message stays in the
\* list at its position, except that retryLast with a retained baseline
\* replaces the last message of the list, the assistant message of the
\* previous attempt, by a new assistant message.
C13_AppendOnlyButRetry ==
  [][IF last'.op = "retryLast" /\ ~lastRequestMessages.isNull
     THEN /\ Len(messagesSubject') = Len(messagesSubject)
          /\ Len(messagesSubject) > 0
          /\ \A i \in 1..(Len(messagesSubject) - 1) :
               messagesSubject'[i] = messagesSubject[i]
          /\ messagesSubject[Len(messagesSubject)].role = "assistant"
          /\ messagesSubject[Len(messagesSubject)].id = requests[Newest].assistantMessageId
          /\ messagesSubject'[Len(messagesSubject)].role = "assistant"
          /\ \A i \in 1..Len(messagesSubject) :
               messagesSubject'[Len(messagesSubject)].id # messagesSubject[i].id
     ELSE /\ Len(messagesSubject') >= Len(messagesSubject)
          /\ \A i \in 1..Len(messagesSubject) :
               messagesSubject'[i].id = messagesSubject[i].id]_vars

\* a retryLast has taken the first attempt's assistant message, which held
\* streamed text, out of the list
C13_Witness ==
  /\ last.op = "retryLast" /\ Newest = 2 /\ last.invoked = 1
  /\ requests[1].text # NoText
  /\ AssistantMessages(1) = {} /\ AssistantMessages(2) # {}

\* the values status$ delivered during the last operation, in order
StatusEmits ==
  LET es == SelectSeq(emits, LAMBDA e : e.proj = "status")
  IN [i \in 1..Len(es) |-> es[i].value]

StreamingEmits == Cardinality({i \in 1..Len(StatusEmits) : StatusEmits[i] = "streaming"})

\* a pushed value that carries no text and no done flag
IsEmptyFragment(n) == n.n = "next" /\ TextOf(n) = NoText /\ ~DoneOf(n)

\* C14: status leaves 'loading' for 'streaming' when, and only when, the
\* active completion hands over a non-empty fragment: status$ delivers
\* 'streaming' once per non-empty fragment, and an empty fragment changes
\* neither messages, status nor error and makes no projection deliver.
C14_StreamingOnFirstFragment ==
  [][/\ ~completed' => StreamingEmits' = NonEmptyObserved'
     /\ (last'.op = "notify" /\ IsEmptyFragment(last'.n)) =>
          /\ UNCHANGED <<messagesSubject, statusSubject, errorSubject, stateSubject>>
          /\ emits' = <<>>
     /\ (statusSubject = "loading" /\ last'.op = "notify" /\ last'.observed # <<>>
           /\ TextOf(last'.n) # NoText) =>
          /\ last'.r = Newest
          /\ ~completed' => StatusEmits'[1] = "streaming"
          /\ ~DoneOf(last'.n) => statusSubject' = "streaming"
     /\ (statusSubject = "loading" /\ statusSubject' = "streaming") =>
          \E i \in 1..Len(last'.observed) :
            /\ TextOf(last'.observed[i].n) # NoText
            /\ last'.observed[i].r = Newest']_vars

\* inside one subscribe() the sequence hands over an empty fragment, then a
\* non-empty one: status$ delivered 'loading', then 'streaming' once
C14_Witness ==
  /\ last.op = "send" /\ Len(last.observed) = 2 /\ ~completed
  /\ IsEmptyFragment(last.observed[1].n)
  /\ TextOf(last.observed[2].n) # NoText
  /\ StatusEmits = <<"loading", "streaming">>
  /\ statusSubject = "streaming"

\* C15: in the sequence of values status$ delivers, 'streaming' comes only
\* right after 'loading' or 'streaming', never right after 'idle', 'error'
\* or 'cancelled'.
C15_StreamingOnlyAfterLoading ==
  [][\A i \in 1..Len(StatusEmits') :
       StatusEmits'[i] = "streaming" =>
         (IF i = 1 THEN statusSubject ELSE StatusEmits'[i - 1])
           \in {"loading", "streaming"}]_vars

\* C16: a send with non-blank text and a retryLast with a retained baseline
\* invoke the adapter once, whatever the status was before, and at the
\* moment the adapter is invoked getState() shows status 'loading' and
\* error null.
C16_NewCycleFromAnyStatus ==
  ((last.op = "send" /\ ~IsBlank(last.content))
     \/ (last.op = "retryLast" /\ ~lastRequestMessages.isNull)) =>
    /\ last.from \in {"idle", "loading", "streaming", "error", "cancelled"}
    /\ last.invoked = 1
    /\ last.statusAtInvoke = "loading"
    /\ last.errorAtInvoke = NoError

\* a retryLast issued while the status was 'error'
C16_Witness ==
  /\ last.op = "retryLast" /\ last.from = "error" /\ last.invoked = 1
  /\ Newest = 2 /\ requests[1].sub = "terminated"
  /\ last.statusAtInvoke = "loading" /\ ~completed

Projections == {"messages", "status", "error", "state"}

\* C17: destroy() leaves no subscription live and no signal un-aborted; the
\* first destroy() makes each of messages$, status$, error$ and state$
\* deliver its completion notification exactly once; a later destroy()
\* delivers nothing; and once destroyed, no projection delivers a value or a
\* completion again, whatever is called and whatever the adapters push.
C17_DestroyCompletesOnce ==
  [][/\ last'.op = "destroy" =>
          /\ completed'
          /\ LiveRequests(requests') = {}
          /\ UnabortedRequests(requests') = {}
          /\ activeAbortController' = 0 /\ activeSubscription' = 0
          /\ ~completed =>
               /\ Len(last'.completions) = Cardinality(Projections)
               /\ \A proj \in Projections :
                    \E i \in 1..Len(last'.completions) : last'.completions[i] = proj
     /\ last'.op # "destroy" => last'.completions = <<>> /\ completed' = completed
     /\ completed => completed' /\ emits' = <<>> /\ last'.completions = <<>>]_vars

\* the first destroy(), with a request in flight that had streamed text
C17_Witness ==
  /\ last.op = "destroy" /\ Len(last.completions) = 4 /\ completed
  /\ Newest > 0 /\ requests[Newest].sub = "unsubscribed"
  /\ requests[Newest].text # NoText /\ ~requests[Newest].doneSeen
  /\ statusSubject = "streaming"

\* C18: once destroyed, send, retryLast and cancel have no effect: the
\* adapter is not invoked and getState() keeps returning the snapshot it
\* returned right after destroy().
C18_NoEffectAfterDestroy ==
  [][(completed /\ last'.op \in {"send", "retryLast", "cancel"}) =>
       /\ last'.invoked = 0
       /\ getState(Ctl)' = getState(Ctl)]_vars

\* C19: whenever messages$, status$ or error$ delivers a value, getState()
\* called inside the observer's callback returns a snapshot whose field of
\* that name equals the delivered value.
C19_GetStateHasNoLag ==
  \A i \in 1..Len(emits) :
    emits[i].proj \in {"messages", "status", "error"} => emits[i].fresh

\* the field of the getState() snapshot that a projection carries
SnapshotField(proj) ==
  CASE proj = "messages" -> getState(Ctl).messages
    [] proj = "status" -> getState(Ctl).status
    [] proj = "error" -> getState(Ctl).error
    [] proj = "state" -> getState(Ctl)

\* C20: an observer that attaches to messages$, status$, error$ or state$
\* before destroy() is handed exactly one value at once: the current
\* snapshot field of that projection (for state$ the snapshot itself, which
\* is made of the three current values), and nothing delivered earlier.
C20_LateSubscriberGetsLatest ==
  (last.op = "subscribe" /\ ~completed) =>
    /\ Len(last.replayed) = 1
    /\ last.replayed[1].n = "next"
    /\ last.replayed[1].value = SnapshotField(last.proj)
    /\ getState(Ctl) = [messages |-> messagesSubject, status |-> statusSubject,
                        error |-> errorSubject]

\* an observer attaches to status$ after it has delivered 'loading' and
\* 'streaming', twice: it is handed 'streaming' alone
C20_Witness ==
  /\ last.op = "subscribe" /\ last.proj = "status" /\ ~completed
  /\ Newest = 1 /\ Len(requests[1].text) = 2
  /\ statusSubject = "streaming"
  /\ last.replayed = <<[n |-> "next", value |-> "streaming"]>>

\* the errors handed to the controller's subscribers during the last
\* operation, in order
ObservedErrors ==
  LET os == SelectSeq(last.observed, LAMBDA o : o.n.n = "error")
  IN [i \in 1..Len(os) |-> os[i].n.err]

\* the non-null values error$ delivered during the last operation, in order
ErrorEmits ==
  LET es == SelectSeq(emits, LAMBDA e : e.proj = "error" /\ e.value # NoError)
  IN [i \in 1..Len(es) |-> es[i].value]

ErrorStatusEmits == Cardinality({i \in 1..Len(StatusEmits) : StatusEmits[i] = "error"})

\* C21: whatever the adapter sequences push (fragment, completion, failure,
\* abort error) and whatever is called, messages$, status$, error$ and state$
\* deliver values only, never an error notification; every failure handed
\* to the controller is delivered by error$ as the error field, followed by
\* status 'error', and error$ and status$ show a failure at no other time
\* (until the first destroy(), after which they deliver nothing).
C21_FailuresOnlyInState ==
  /\ \A i \in 1..Len(emits) : emits[i].n = "next" /\ emits[i].proj \in Projections
  /\ (~completed \/ last.completions # <<>>) =>
       /\ ErrorEmits = ObservedErrors
       /\ ErrorStatusEmits = Len(ObservedErrors)
       /\ \A i \in 1..Len(emits) :
            (emits[i].proj = "error" /\ emits[i].value # NoError) =>
               /\ i + 2 <= Len(emits)
               /\ emits[i + 2].proj = "status" /\ emits[i + 2].value = "error"
  /\ (last.op = "notify" /\ last.observed # <<>> /\ last.n.n = "error") =>
       /\ errorSubject = last.n.err /\ statusSubject = "error"
       /\ getState(Ctl).error = last.n.err /\ getState(Ctl).status = "error"

\* a send supersedes a request whose sequence fails on abort, and the new
\* request's sequence fails at once with an adapter error
C21_Witness ==
  /\ last.op = "send" /\ Newest = 2 /\ ~completed
  /\ ObservedErrors = <<AbortError, "E1">>
  /\ ErrorEmits = <<AbortError, "E1">>
  /\ statusSubject = "error" /\ errorSubject = "E1"

\* the ChatState values state$ delivered, in order
StateEmits(es) ==
  LET ss == SelectSeq(es, LAMBDA e : e.proj = "state")
  IN [i \in 1..Len(ss) |-> ss[i].value]

\* C22: a controller around a LanguageModel and one around a ChatModelAdapter
\* that are called in the same way, and whose capabilities hand over the
\* same texts, failures and completions, make state$ deliver the same
\* ChatState values in the same order, and hold the same snapshot.
C22_SameStatesOnBothPaths ==
  /\ StateEmits(twin.emits) = StateEmits(emits)
  /\ twin.stateSubject = getState(Ctl)

\* C23: with an id generator that never repeats itself and initial messages
\* whose ids are distinct and not the generator's, the messages of the list
\* (and of the getState() snapshot) have pairwise distinct ids in every
\* state, and every non-empty fragment handed to the controller finds
\* exactly one message with the id it is meant for.
C23_UniqueIds ==
  /\ Cardinality({messagesSubject[i].id : i \in 1..Len(messagesSubject)})
       = Len(messagesSubject)
  /\ \E snapshot \in {getState(Ctl).messages} :
       Cardinality({snapshot[i].id : i \in 1..Len(snapshot)}) = Len(snapshot)
  /\ \A i \in 1..Len(last.observed) :
       TextOf(last.observed[i].n) # NoText =>
         Cardinality(AssistantMessages(last.observed[i].r)) = 1

\* a list of an initial message and the messages of two sends, the second
\* of which is handed a fragment
C23_Witness ==
  /\ Len(messagesSubject) = 5 /\ messagesSubject[1].id = 0
  /\ last.op = "notify" /\ last.r = 2 /\ last.observed # <<>>
  /\ TextOf(last.n) # NoText
  /\ messagesSubject[5].content = TextOf(last.n)

\* C24: what an adapter sequence pushes (fragment, completion, failure) and
\* cancel() leave the list as long as it was and every message as it was
\* but for its content; the only content that changes is that of the
\* assistant message of the newest request, while that request's
\* subscription is live, when its sequence hands over a fragment, and it
\* changes by having the fragment appended.
C24_FragmentsOnlyAppend ==
  [][last'.op \in {"notify", "cancel"} =>
       /\ Len(messagesSubject') = Len(messagesSubject)
       /\ \A i \in 1..Len(messagesSubject) :
            /\ [messagesSubject'[i] EXCEPT !.content = messagesSubject[i].content]
                 = messagesSubject[i]
            /\ messagesSubject'[i].content # messagesSubject[i].content =>
                 /\ last'.op = "notify" /\ last'.r = Newest
                 /\ requests[last'.r].sub = "live"
                 /\ messagesSubject[i].id = requests[last'.r].assistantMessageId
                 /\ messagesSubject[i].role = "assistant"
                 /\ messagesSubject'[i].content
                      = messagesSubject[i].content \o TextOf(last'.n)
       /\ getState(Ctl)'.messages = messagesSubject']_vars

\* a fragment for the second request: the messages before it, one with meta
\* and one the superseded assistant message with its streamed text, are as
\* they were
C24_Witness ==
  /\ last.op = "notify" /\ last.r = 2 /\ last.observed # <<>>
  /\ TextOf(last.n) = <<"b">>
  /\ Len(messagesSubject) = 5
  /\ messagesSubject[1].meta.defined /\ messagesSubject[1].createdAt = 0
  /\ messagesSubject[3].role = "assistant" /\ messagesSubject[3].content = <<"a">>
  /\ messagesSubject[5].content = <<"b">>

\* the subscriptions to the model's sequence that are live
LiveConnections == {k \in 1..Len(connections) : connections[k].sub = "live"}

\* what subscription k has passed on since subscriber i attached
EventsSince(i) ==
  IF consumers[i].feed = 0 THEN <<>>
  ELSE SubSeq(connections[consumers[i].feed].events, consumers[i].from + 1,
              Len(connections[consumers[i].feed].events))

ViewsOf(is) == {consumers[i].view : i \in is}

\* C25 as claimed: for one streamText call doStream is invoked at most once,
\* at most one subscription to the sequence it returned is live, and the
\* subscribers fed by the same subscription have observed the same events
\* in the same order.
C25_SharedAndSame ==
  call.api = "streamText" =>
    /\ call.invoked <= 1
    /\ Cardinality(LiveConnections) <= 1
    /\ \A i, j \in 1..Len(consumers) :
         (consumers[i].feed # 0 /\ consumers[i].feed = consumers[j].feed) =>
            consumers[i].seen = consumers[j].seen

\* C25 as amended: doStream is invoked once, by streamText itself; at most
\* one subscription to the sequence it returned is live, and every live
\* subscriber is fed by it; each subscriber has observed, in order, exactly
\* what that subscription passed on since the subscriber attached, so
\* subscribers that attached at the same point have observed the same.
C25_SharedSinceAttached ==
  call.api = "streamText" =>
    /\ call.invoked = 1
    /\ Cardinality(LiveConnections) <= 1
    /\ \A i \in 1..Len(consumers) :
         /\ consumers[i].state = "live" =>
              consumers[i].feed = call.shared /\ call.shared \in LiveConnections
         /\ consumers[i].signalAtSubscribe # "aborted" =>
              /\ consumers[i].feed \in 1..Len(connections)
              /\ call.signal # "aborted" => consumers[i].seen = EventsSince(i)
    /\ \A i, j \in 1..Len(consumers) :
         (consumers[i].feed # 0 /\ consumers[i].feed = consumers[j].feed
            /\ consumers[i].from = consumers[j].from) =>
            consumers[i].seen = consumers[j].seen

\* stream$, delta$ and text$ are subscribed to while one subscription to the
\* model's sequence is live; the last one attached after the first event
C25_Witness ==
  /\ call.api = "streamText" /\ Len(consumers) = 3 /\ Len(connections) = 1
  /\ ViewsOf({1, 2, 3}) = {"stream", "delta", "text"}
  /\ \A i \in 1..3 : consumers[i].feed = 1 /\ consumers[i].state = "live"
  /\ Len(consumers[1].seen) = 2 /\ Len(consumers[3].seen) = 1
  /\ consumers[3].from = 1

\* C26: a subscriber that attaches when the signal is aborted already is
\* handed the abort error at once and nothing else, no subscription to the
\* model's sequence is made for it, and doStream / doGenerate has not been
\* invoked.
C26_PreAbortedNeverInvokes ==
  \A i \in 1..Len(consumers) :
    consumers[i].signalAtSubscribe = "aborted" =>
      /\ consumers[i].got = <<AbortNotification>>
      /\ consumers[i].feed = 0
      /\ call.invoked = 0

\* C27: when the signal is aborted while subscribers are attached, each of
\* them is handed the abort error, once, as its last notification; no
\* subscription to the model's sequence stays live and no abort listener
\* stays registered; and from then on nothing the model pushes reaches any
\* of them.
C27_AbortInFlight ==
  [][/\ (call.signal = "unaborted" /\ call'.signal = "aborted") =>
          /\ \A i \in 1..Len(consumers) :
               IF consumers[i].state = "live"
               THEN /\ consumers'[i].got = Append(consumers[i].got, AbortNotification)
                    /\ consumers'[i].state = "errored"
               ELSE consumers'[i] = consumers[i]
          /\ \A k \in 1..Len(connections') :
               connections'[k].sub # "live" /\ ~connections'[k].listening
          /\ \A k \in LiveConnections : connections'[k].sub = "unsubscribed"
     /\ call.signal = "aborted" =>
          /\ \A i \in 1..Len(consumers) : consumers'[i] = consumers[i]
          /\ \A k \in 1..Len(connections') : connections'[k].sub # "live"]_vars

\* two subscribers of a streamText call had been handed an event when the
\* signal was aborted; the model pushed another event afterwards
C27_Witness ==
  /\ call.api = "streamText" /\ call.signal = "aborted"
  /\ Len(consumers) >= 2 /\ Len(connections) = 1
  /\ \A i \in 1..2 :
       /\ Len(consumers[i].got) = 2 /\ consumers[i].got[1].n = "next"
       /\ consumers[i].got[2] = AbortNotification
  /\ connections[1].sub = "unsubscribed"
  /\ connections[1].attempts = 2 /\ Len(connections[1].events) = 1

\* a finish event was passed on by some subscription to the model's sequence
FinishObserved == \E k \in 1..Len(connections) : Finished(k)

\* C28: for one streamText call with onFinish, onFinish has been invoked
\* once if a finish event was observed and never otherwise, however many
\* subscribers there are and whenever they attach.
C28_OnFinishOnce ==
  (call.api = "streamText" /\ call.onFinish) =>
    call.finishCalls = IF FinishObserved THEN 1 ELSE 0

RECURSIVE Concat(_)
Concat(ts) == IF ts = <<>> THEN NoText ELSE Head(ts) \o Concat(Tail(ts))

\* the texts of the text-delta events among ns, in order
Deltas(ns) ==
  LET ds == SelectSeq(ns, LAMBDA n : n.n = "next" /\ n.value.type = "text-delta")
  IN [j \in 1..Len(ds) |-> ds[j].value.textDelta]

\* the values a subscriber's observer was handed, in order
Values(i) ==
  LET vs == SelectSeq(consumers[i].got, LAMBDA n : n.n = "next")
  IN [j \in 1..Len(vs) |-> vs[j].value]

\* C29: a subscriber of delta$ is handed the texts of the text-delta events
\* the model's sequence passed on since it attached, in order, and nothing
\* for finish and error events; a subscriber of text$ is handed one value
\* per text-delta event, the n-th being the first n of those texts put
\* together in order.  For a subscriber attached from the start these are
\* all the events of the subscription.
C29_DeltaAndText ==
  \A i \in 1..Len(consumers) :
    /\ consumers[i].view = "delta" => Values(i) = Deltas(consumers[i].seen)
    /\ consumers[i].view = "text" =>
         Values(i) = [n \in 1..Len(Deltas(consumers[i].seen)) |->
                        Concat(SubSeq(Deltas(consumers[i].seen), 1, n))]
    /\ (consumers[i].feed # 0 /\ consumers[i].from = 0) =>
         Deltas(consumers[i].seen) = Deltas(connections[consumers[i].feed].events)

\* a subscriber of text$ from the start was handed "a", then "ab", an error
\* event in between going unnoticed
C29_Witness ==
  \E i \in 1..Len(consumers) :
    /\ consumers[i].view = "text" /\ consumers[i].from = 0 /\ consumers[i].feed # 0
    /\ Len(consumers[i].seen) = 3 /\ consumers[i].seen[2].value.type = "error"
    /\ Values(i) = << <<"a">>, <<"a", "b">> >>

\* C30: when the model's sequence fails, every subscriber fed by that
\* subscription has been handed what was passed on since it attached and
\* then the failure itself, and is ended by it; no subscriber is handed
\* anything after an error or a completion.
C30_FailureReachesAll ==
  /\ \A i \in 1..Len(consumers) :
       (/\ consumers[i].feed # 0
        /\ connections[consumers[i].feed].sub = "terminated"
        /\ EventsSince(i) # <<>>
        /\ EventsSince(i)[Len(EventsSince(i))].n = "error") =>
          /\ consumers[i].state = "errored"
          /\ consumers[i].seen = EventsSince(i)
          /\ consumers[i].got[Len(consumers[i].got)]
               = EventsSince(i)[Len(EventsSince(i))]
  /\ \A i \in 1..Len(consumers) : \A j \in 1..(Len(consumers[i].got) - 1) :
       consumers[i].got[j].n = "next"

\* stream$, delta$ and text$ were subscribed to, an event was passed on,
\* then the model's sequence failed
C30_Witness ==
  /\ call.api = "streamText" /\ Len(consumers) = 3 /\ Len(connections) = 1
  /\ ViewsOf({1, 2, 3}) = {"stream", "delta", "text"}
  /\ connections[1].sub = "terminated" /\ Len(connections[1].events) = 2
  /\ connections[1].events[1].value.type = "text-delta"
  /\ \A i \in 1..3 :
       /\ consumers[i].state = "errored" /\ Len(consumers[i].got) = 2
       /\ consumers[i].got[2].err \in AdapterErrors

\* the doGenerate sequence behind subscription k has kept to its contract of
\* a single value: at most one TextResult, and completion only after it
SingleValued(k) ==
  LET es == connections[k].events
  IN /\ Cardinality({j \in 1..Len(es) : es[j].n = "next"}) <= 1
     /\ (es # <<>> /\ es[Len(es)].n = "complete") => Len(es) = 2

\* C31: each subscriber of the sequence generateText returned is handed at
\* most one terminal notification and nothing after it; a subscriber whose
\* doGenerate sequence is single-valued is handed at most one TextResult,
\* and it is ended either by a completion that follows exactly one
\* TextResult or by a failure, the model's error or the abort error; with a
\* token aborted before it subscribed, the abort error is all it gets.
C31_OneResultOrFailure ==
  \A i \in 1..Len(consumers) :
    consumers[i].view = "result" =>
      LET got == consumers[i].got
      IN /\ \A j \in 1..(Len(got) - 1) : got[j].n = "next"
         /\ consumers[i].state = "live" =>
              \A j \in 1..Len(got) : got[j].n = "next"
         /\ consumers[i].state = "completed" =>
              got # <<>> /\ got[Len(got)].n = "complete"
         /\ consumers[i].state = "errored" =>
              /\ got # <<>> /\ got[Len(got)].n = "error"
              /\ got[Len(got)].err \in AdapterErrors \cup {AbortError}
         /\ consumers[i].feed = 0 => got = <<AbortNotification>>
         /\ (consumers[i].feed # 0 /\ SingleValued(consumers[i].feed)) =>
              /\ Cardinality({j \in 1..Len(got) : got[j].n = "next"}) <= 1
              /\ consumers[i].state = "completed" =>
                   /\ Len(got) = 2
                   /\ got[1].n = "next" /\ got[1].value \in TextResults

\* one subscriber was handed a TextResult and the completion, the token was
\* aborted, and a later subscriber was handed the abort error
C31_Witness ==
  /\ call.api = "generateText" /\ Len(consumers) >= 2
  /\ consumers[1].state = "completed" /\ Len(consumers[1].got) = 2
  /\ consumers[1].got[1].value \in TextResults
  /\ consumers[2].state = "errored"
  /\ consumers[2].got = <<AbortNotification>>

\* C32: before any operation is called, getState() holds the initialMessages
\* option, message by message in the given order (no message when the option
\* is absent), status 'idle' and error null, the three single projections
\* hold the same values, and no completion has been started.
C32_InitialState ==
  last.op = "create" =>
    /\ getState(Ctl).messages \in {<<>>, OrderedInitialMessages}
    /\ getState(Ctl).messages = messagesSubject
    /\ getState(Ctl).status = "idle" /\ statusSubject = "idle"
    /\ getState(Ctl).error = NoError /\ errorSubject = NoError
    /\ requests = <<>> /\ activeSubscription = 0 /\ activeAbortController = 0
    /\ lastRequestMessages.isNull
    /\ emits = <<>>

\* a controller was created with a system message followed by a user message
C32_Witness ==
  /\ last.op = "create"
  /\ Len(getState(Ctl).messages) = 2
  /\ getState(Ctl).messages[1].role = "system"
  /\ getState(Ctl).messages[2].role = "user"

\* v is the last value projection proj delivered during the last operation,
\* if it delivered any
DeliveredLast(proj, v) ==
  LET es == SelectSeq(emits, LAMBDA e : e.proj = proj)
  IN es # <<>> => es[Len(es)].value = v

\* C38: between operations and adapter callbacks, until destroy() is called,
\* getState() is the record of the values messages$, status$ and error$ hold
\* (what each delivered last and hands to a new subscriber), and it is the
\* value state$ delivered last.
C38_SnapshotCoherent ==
  ~completed =>
    /\ getState(Ctl).messages = messagesSubject
    /\ getState(Ctl).status = statusSubject
    /\ getState(Ctl).error = errorSubject
    /\ DeliveredLast("status", statusSubject)
    /\ DeliveredLast("error", errorSubject)
    /\ DeliveredLast("state", getState(Ctl))

\* a fragment was appended and then the completion failed
C38_Witness ==
  /\ ~completed /\ last.op = "notify"
  /\ getState(Ctl).status = "error" /\ getState(Ctl).error \in AdapterErrors
  /\ \E i \in 1..Len(messagesSubject) :
       messagesSubject[i].role = "assistant" /\ messagesSubject[i].content # NoText
  /\ Len(emits) >= 4

\* while status is 'loading' or 'streaming', the controller holds a live
\* subscription and a cancellation token that has not been aborted
BusyHoldsRequest ==
  (~completed /\ statusSubject \in {"loading", "streaming"}) =>
    /\ activeSubscription # 0
    /\ requests[activeSubscription].sub = "live"
    /\ activeAbortController # 0
    /\ ~requests[activeAbortController].aborted

\* while status is 'idle', 'error' or 'cancelled', no subscription that the
\* controller started is live
QuietHoldsNone ==
  statusSubject \in {"idle", "error", "cancelled"} => LiveRequests(requests) = {}

\* C39: between operations and adapter callbacks, while status is 'loading'
\* or 'streaming' the controller holds a live subscription to an adapter
\* sequence and a cancellation token that has not been aborted, and while
\* status is 'idle', 'error' or 'cancelled' no subscription to an adapter
\* sequence that the controller started is live.
C39_SubscriptionMatchesStatus == BusyHoldsRequest /\ QuietHoldsNone

\* the first delivery of 'loading' by status$ during the last operation
FirstLoading ==
  CHOOSE i \in 1..(Len(emits) + 1) :
    /\ i <= Len(emits) => (emits[i].proj = "status" /\ emits[i].value = "loading")
    /\ \A j \in 1..(i - 1) : ~(emits[j].proj = "status" /\ emits[j].value = "loading")

\* C35: with a LanguageModel, a send() or retryLast() that starts a
\* completion delivers, before status$ delivers 'loading', neither 'error'
\* on status$ nor an error that is not null on error$, whatever request it
\* supersedes.
C35_SupersedingIsNoFailure ==
  (model = "languageModel" /\ last.op \in {"send", "retryLast"} /\ last.invoked = 1) =>
    \A i \in 1..(FirstLoading - 1) :
      /\ emits[i].proj = "status" => emits[i].value # "error"
      /\ emits[i].proj = "error" => emits[i].value = NoError

\* C36: when an observer of status$ or state$ calls retryLast() or send()
\* from inside its callback as it is handed status 'error', then, once the
\* error callback of the failed request has returned, the completion that
\* call started is the active one: its subscription is live, its
\* cancellation token is not aborted, and status is 'loading'.
C36_ReentrantRequestSurvives ==
  (last.op = "reenter" /\ last.invoked = 1 /\ last.pushed = 1) =>
    /\ requests[Newest].sub = "live"
    /\ ~requests[Newest].aborted
    /\ activeSubscription = Newest
    /\ activeAbortController = Newest
    /\ statusSubject = "loading"

HandedNow ==
  SubSeq(asyncController.seen, asyncController.last.from + 1,
         Len(asyncController.seen))

\* C33: when execute(B) is called while the request of execute(A) is in
\* flight (subscribed, no result yet), then at the time B's executor sequence is
\* subscribed A's signal is aborted and A's sequence is unsubscribed, and
\* they stay so; nothing A produces, at the abort or later, is written to
\* state or handed to the observer of state$; an execute call on a
\* controller that is not destroyed invokes the executor exactly once.
C33_SupersededIsSilenced ==
  LET a == asyncController
      l == asyncController.last
  IN /\ (l.op = "execute" /\ l.inFlight # 0) =>
          /\ l.abortedAtSubscribe /\ l.subAtSubscribe = "unsubscribed"
          /\ a.executions[l.inFlight].aborted
          /\ a.executions[l.inFlight].sub = "unsubscribed"
          /\ HandedNow # <<>>
          /\ HandedNow[1] = [l.before EXCEPT !.status = "loading", !.error = NoError]
          /\ \A i \in 1..Len(HandedNow) : HandedNow[i].error # AbortError
     /\ (l.op = "notify" /\ l.k < Len(a.executions)) =>
          /\ ~l.live
          /\ a.stateSubject = l.before
          /\ HandedNow = <<>>
     /\ (l.op = "execute" /\ ~a.completed) =>
          /\ l.invoked = 1
          /\ a.executions # <<>>
          /\ a.innerSubscriber \in {0, Len(a.executions)}

\* execute(B) came while A, whose sequence fails when its signal fires, was
\* in flight
C33_Witness ==
  /\ asyncController.executor = "aborting"
  /\ asyncController.last.op = "execute"
  /\ asyncController.last.inFlight # 0
  /\ asyncController.executions[asyncController.last.inFlight].ended
  /\ asyncController.stateSubject.status = "loading"

\* the notification a first execution has pushed, when it is the only one
FirstPushed ==
  IF asyncController.last.op = "execute"
  THEN asyncController.last.script[1] ELSE asyncController.last.n

\* C34: the observer of state$ subscribed at creation is handed the idle
\* state first.  For the first execute, undisturbed, whose sequence has
\* pushed one notification, it has been handed idle, loading, success with
\* data the value pushed and error null, or idle, loading, error with error
\* the error pushed and data still null.  At any later time a value pushed by
\* the subscribed sequence makes the state success with that data and error
\* null, and an error makes it error with that error and data as it was.
C34_StatusSequence ==
  LET a == asyncController
      l == asyncController.last
      Loading == [AsyncIdle EXCEPT !.status = "loading"]
  IN /\ a.seen[1] = AsyncIdle
     /\ (/\ Len(a.executions) = 1 /\ a.cancels = 0 /\ ~a.completed
         /\ a.pushes = 1) =>
          /\ FirstPushed.n = "next" =>
               a.seen = <<AsyncIdle, Loading,
                          [status |-> "success", data |-> FirstPushed.value,
                           error |-> NoError, updatedAt |-> "now"]>>
          /\ FirstPushed.n = "error" =>
               a.seen = <<AsyncIdle, Loading,
                          [status |-> "error", data |-> NoData,
                           error |-> FirstPushed.err, updatedAt |-> "now"]>>
          /\ FirstPushed.n = "complete" => a.seen = <<AsyncIdle, Loading>>
     /\ (l.op = "notify" /\ l.live /\ l.n.n = "next") =>
          /\ a.stateSubject = [status |-> "success", data |-> l.n.value,
                               error |-> NoError, updatedAt |-> "now"]
          /\ HandedNow = <<a.stateSubject>>
     /\ (l.op = "notify" /\ l.live /\ l.n.n = "error") =>
          /\ a.stateSubject = [l.before EXCEPT !.status = "error",
                                               !.error = l.n.err,
                                               !.updatedAt = "now"]
          /\ a.stateSubject.data = l.before.data
          /\ HandedNow = <<a.stateSubject>>

\* a second execution fails after the first one has stored a value
C34_Witness ==
  /\ asyncController.last.op = "notify"
  /\ asyncController.last.live
  /\ asyncController.last.n.n = "error"
  /\ asyncController.last.k = 2
  /\ asyncController.last.before.status = "loading"
  /\ asyncController.stateSubject.data # NoData

\* C40: once cancel() was called while execution k was in flight, and until
\* the next execute(), k's signal is aborted, status is 'cancelled', and data
\* and error are what they were when cancel() was called.
C40_CancelledStays ==
  LET a == asyncController
  IN a.sinceCancel.k # 0 =>
       /\ a.executions[a.sinceCancel.k].aborted
       /\ a.stateSubject.status = "cancelled"
       /\ a.stateSubject.data = a.sinceCancel.data
       /\ a.stateSubject.error = a.sinceCancel.error

====
